---- MODULE Spec2Model ----
(***************************************************************************)
(* A model of the BASIC language server's source analysis engine.         *)
(*                                                                         *)
(* A document is a sequence of rows (what source.lines() yields); a row is *)
(* a sequence of one-character strings, so that the text-level algorithms  *)
(* (find, split, trim, parse) are computed as the code computes them.      *)
(* Columns and rows are 0-based as in the code; Slice(s, a, b) is s[a..b]. *)
(***************************************************************************)
EXTENDS Integers, Sequences, FiniteSets, Bags, TLC

VARIABLES
    doc,          \* the text snapshot handed to an operation, as rows
    op,           \* the operation that ran last on doc ("edit" after a text change)
    parsed,       \* the grammar engine's verdict consumed by check()
    diagnostics,  \* the bag of diagnostics check() returned
    symbols,      \* the (definitions, usages) index built inside check_warnings
    cursor,       \* the cursor position of the last rename request
    newName,      \* the new name of the last rename request
    edits,        \* the edit set rename_symbol returned (None when rejected)
    doc2,         \* the document after the client applied edits
    edits2,       \* the edit set of the inverse rename on doc2
    foldingRanges,       \* the folding regions get_folding_ranges returned
    response,     \* the answer to the last request made at the cursor
    documents,    \* the document store: the text held for each identifier
    writer,       \* the handler holding the store's exclusive lock, 0 when none
    notifications, \* the notifications received, in order, each with its handler's position
    client        \* the diagnostics publications sent to the client, in order

vars == <<doc, op, parsed, diagnostics, symbols, cursor, newName, edits,
          doc2, edits2, foldingRanges, response, documents, writer, notifications, client>>

-----------------------------------------------------------------------------
(* Bounds of the model. *)

MaxRows == 3

-----------------------------------------------------------------------------
(* Characters and byte classes of u8. *)

LowerSeq ==
    <<"a","b","c","d","e","f","g","h","i","j","k","l","m",
      "n","o","p","q","r","s","t","u","v","w","x","y","z">>

UpperSeq ==
    <<"A","B","C","D","E","F","G","H","I","J","K","L","M",
      "N","O","P","Q","R","S","T","U","V","W","X","Y","Z">>

DigitSeq == <<"0","1","2","3","4","5","6","7","8","9">>

Range(s) == {s[i] : i \in DOMAIN s}

LowerSet == Range(LowerSeq)
UpperSet == Range(UpperSeq)
DigitSet == Range(DigitSeq)

UpperMap == [c \in LowerSet |-> UpperSeq[CHOOSE i \in 1..26 : LowerSeq[i] = c]]

DigitVal == [c \in DigitSet |-> (CHOOSE i \in 1..10 : DigitSeq[i] = c) - 1]

is_ascii_alphabetic(c) == c \in LowerSet \/ c \in UpperSet

is_ascii_digit(c) == c \in DigitSet

is_ascii_alphanumeric(c) == is_ascii_alphabetic(c) \/ is_ascii_digit(c)

is_whitespace(c) == c \in {" ", "\t"}

\* the text as written, with no case folding
keep_case(s) == s

\* the two bytes of U+0149 (small n preceded by apostrophe) and the three
\* bytes of its upper case, U+02BC followed by N
WideLower == <<"C5", "89">>

WideUpper == <<"CA", "BC", "N">>

\* char::to_uppercase over the characters of s, one of which may be U+0149
RECURSIVE uppercase_chars(_)
uppercase_chars(s) ==
    IF s = <<>> THEN <<>>
    ELSE IF Len(s) >= 2 /\ SubSeq(s, 1, 2) = WideLower
    THEN WideUpper \o uppercase_chars(SubSeq(s, 3, Len(s)))
    ELSE <<IF s[1] \in LowerSet THEN UpperMap[s[1]] ELSE s[1]>> \o uppercase_chars(Tail(s))

\* str::to_uppercase: byte for byte on ASCII text; text that holds U+0149
\* grows by one byte per occurrence
to_uppercase(s) ==
    IF \E i \in DOMAIN s : s[i] = "C5" THEN uppercase_chars(s)
    ELSE [i \in DOMAIN s |-> IF s[i] \in LowerSet THEN UpperMap[s[i]] ELSE s[i]]

-----------------------------------------------------------------------------
(* String primitives of the standard library, on 0-based offsets. *)

None == -1

Min(S) == CHOOSE x \in S : \A y \in S : x <= y

Max(S) == CHOOSE x \in S : \A y \in S : x >= y

Slice(s, a, b) == SubSeq(s, a + 1, b)

From(s, a) == SubSeq(s, a + 1, Len(s))

starts_with(s, p) == Len(p) <= Len(s) /\ SubSeq(s, 1, Len(p)) = p

ends_with(s, p) == Len(p) <= Len(s) /\ SubSeq(s, Len(s) - Len(p) + 1, Len(s)) = p

\* str::find: the offset of the first occurrence of p in s, or None
find(s, p) ==
    LET hits == {i \in 0..(Len(s) - Len(p)) : Slice(s, i, i + Len(p)) = p}
    IN  IF hits = {} THEN None ELSE Min(hits)

contains(s, p) == find(s, p) # None

\* str::find with a predicate: the first offset whose byte satisfies it
FirstNonWs(s) ==
    LET hits == {i \in 0..(Len(s) - 1) : ~is_whitespace(s[i + 1])}
    IN  IF hits = {} THEN Len(s) ELSE Min(hits)

LastNonWs(s) ==
    LET hits == {i \in 1..Len(s) : ~is_whitespace(s[i])}
    IN  IF hits = {} THEN 0 ELSE Max(hits)

trim_start(s) == From(s, FirstNonWs(s))

trim_end(s) == SubSeq(s, 1, LastNonWs(s))

trim(s) == trim_end(trim_start(s))

\* split_whitespace().next(), with the empty string standing for "no word"
first_word(s) ==
    LET t == trim_start(s)
        ws == {i \in 0..(Len(t) - 1) : is_whitespace(t[i + 1])}
    IN  IF ws = {} THEN t ELSE Slice(t, 0, Min(ws))

\* str::split on one character: the parts in order ("" splits into one empty part)
RECURSIVE split(_, _)
split(s, ch) ==
    LET i == find(s, <<ch>>)
    IN  IF i = None THEN <<s>>
        ELSE <<Slice(s, 0, i)>> \o split(From(s, i + 1), ch)

RECURSIVE DecimalValue(_)
DecimalValue(s) ==
    IF s = <<>> THEN 0
    ELSE 10 * DecimalValue(SubSeq(s, 1, Len(s) - 1)) + DigitVal[s[Len(s)]]

RECURSIVE StripZeros(_)
StripZeros(s) == IF s # <<>> /\ s[1] = "0" THEN StripZeros(Tail(s)) ELSE s

\* str::parse::<u32>: an optional '+', then digits only; None (-1) stands for
\* Err.  Values are kept below 10^9: a literal of ten or more significant digits
\* is taken to overflow.
parse_u32(s) ==
    LET body == IF s # <<>> /\ s[1] = "+" THEN Tail(s) ELSE s
    IN  IF body = <<>> \/ (\E i \in DOMAIN body : ~is_ascii_digit(body[i])) THEN None
        ELSE IF Len(StripZeros(body)) > 9 THEN None
        ELSE DecimalValue(StripZeros(body))

\* format!("{}", n) of an unsigned integer
RECURSIVE to_string(_)
to_string(n) ==
    IF n < 10 THEN <<DigitSeq[n + 1]>>
    ELSE to_string(n \div 10) \o <<DigitSeq[(n % 10) + 1]>>

\* the bag of the elements of a Vec, for results whose order is that of a
\* HashMap iteration
SeqToBag(s) == [x \in Range(s) |-> Cardinality({i \in DOMAIN s : s[i] = x})]

-----------------------------------------------------------------------------
(* Keyword and function tables. *)

\* diagnostics.rs is_keyword
DiagKeywords ==
    {<<"R","E","M">>, <<"L","E","T">>, <<"D","I","M">>, <<"P","R","I","N","T">>,
     <<"L","P","R","I","N","T">>, <<"I","N","P","U","T">>, <<"L","I","N","E">>,
     <<"I","F">>, <<"T","H","E","N">>, <<"E","L","S","E">>, <<"E","L","S","E","I","F">>,
     <<"E","N","D">>, <<"E","N","D","I","F">>, <<"F","O","R">>, <<"T","O">>,
     <<"S","T","E","P">>, <<"N","E","X","T">>, <<"W","H","I","L","E">>,
     <<"W","E","N","D">>, <<"D","O">>, <<"L","O","O","P">>, <<"U","N","T","I","L">>,
     <<"E","X","I","T">>, <<"S","E","L","E","C","T">>, <<"C","A","S","E">>,
     <<"G","O","T","O">>, <<"G","O","S","U","B">>, <<"R","E","T","U","R","N">>,
     <<"O","N">>, <<"R","E","A","D">>, <<"D","A","T","A">>,
     <<"R","E","S","T","O","R","E">>, <<"D","E","F">>, <<"F","N">>, <<"A","S">>,
     <<"O","U","T","P","U","T">>, <<"A","P","P","E","N","D">>, <<"R","A","N","D","O","M">>,
     <<"B","I","N","A","R","Y">>, <<"O","P","E","N">>, <<"C","L","O","S","E">>,
     <<"G","E","T">>, <<"P","U","T">>, <<"W","R","I","T","E">>, <<"F","I","E","L","D">>,
     <<"L","S","E","T">>, <<"R","S","E","T">>, <<"S","C","R","E","E","N">>,
     <<"C","O","L","O","R">>, <<"C","L","S">>, <<"L","O","C","A","T","E">>,
     <<"W","I","D","T","H">>, <<"C","I","R","C","L","E">>, <<"P","A","I","N","T">>,
     <<"P","S","E","T">>, <<"P","R","E","S","E","T">>, <<"D","R","A","W">>,
     <<"P","L","A","Y">>, <<"S","O","U","N","D">>, <<"B","E","E","P">>,
     <<"S","W","A","P">>, <<"R","A","N","D","O","M","I","Z","E">>, <<"C","L","E","A","R">>,
     <<"S","T","O","P">>, <<"P","O","K","E">>, <<"P","E","E","K">>, <<"O","U","T">>,
     <<"I","N","P">>, <<"W","A","I","T">>, <<"A","N","D">>, <<"O","R">>, <<"X","O","R">>,
     <<"N","O","T">>, <<"M","O","D">>, <<"I","M","P">>, <<"E","Q","V">>,
     <<"K","I","L","L">>, <<"N","A","M","E">>, <<"M","K","D","I","R">>,
     <<"R","M","D","I","R">>, <<"C","H","D","I","R">>, <<"F","I","L","E","S">>,
     <<"C","A","L","L">>, <<"C","H","A","I","N">>, <<"C","O","M","M","O","N">>,
     <<"S","H","A","R","E","D">>, <<"S","T","A","T","I","C">>, <<"S","U","B">>,
     <<"U","S","I","N","G">>}

\* diagnostics.rs is_function
DiagFunctions ==
    {<<"C","H","R","$">>, <<"A","S","C">>, <<"L","E","N">>, <<"L","E","F","T","$">>,
     <<"R","I","G","H","T","$">>, <<"M","I","D","$">>, <<"S","T","R","$">>,
     <<"V","A","L">>, <<"S","T","R","I","N","G","$">>, <<"S","P","A","C","E","$">>,
     <<"I","N","S","T","R">>, <<"U","C","A","S","E","$">>, <<"L","C","A","S","E","$">>,
     <<"L","T","R","I","M","$">>, <<"R","T","R","I","M","$">>, <<"H","E","X","$">>,
     <<"O","C","T","$">>, <<"A","B","S">>, <<"S","G","N">>, <<"I","N","T">>,
     <<"F","I","X">>, <<"C","I","N","T">>, <<"S","Q","R">>, <<"S","I","N">>,
     <<"C","O","S">>, <<"T","A","N">>, <<"A","T","N">>, <<"L","O","G">>, <<"E","X","P">>,
     <<"R","N","D">>, <<"P","E","E","K">>, <<"T","I","M","E","R">>,
     <<"D","A","T","E","$">>, <<"T","I","M","E","$">>, <<"I","N","K","E","Y","$">>,
     <<"E","O","F">>, <<"C","S","R","L","I","N">>, <<"P","O","S">>,
     <<"P","O","I","N","T">>, <<"T","A","B">>, <<"S","P","C">>, <<"L","O","F">>,
     <<"L","O","C">>, <<"F","R","E">>, <<"V","A","R","P","T","R">>,
     <<"V","A","R","P","T","R","$">>, <<"S","A","D","D">>}

\* diagnostics.rs is_builtin_var
BuiltinVars ==
    {<<"T","I","M","E","R">>, <<"D","A","T","E","$">>, <<"T","I","M","E","$">>,
     <<"I","N","K","E","Y","$">>, <<"E","R","R">>, <<"E","R","L">>}

\* rename.rs is_keyword
RenameKeywords ==
    {<<"R","E","M">>, <<"L","E","T">>, <<"D","I","M">>, <<"P","R","I","N","T">>,
     <<"L","P","R","I","N","T">>, <<"I","N","P","U","T">>, <<"L","I","N","E">>,
     <<"I","F">>, <<"T","H","E","N">>, <<"E","L","S","E">>, <<"E","L","S","E","I","F">>,
     <<"E","N","D">>, <<"E","N","D","I","F">>, <<"F","O","R">>, <<"T","O">>,
     <<"S","T","E","P">>, <<"N","E","X","T">>, <<"W","H","I","L","E">>,
     <<"W","E","N","D">>, <<"D","O">>, <<"L","O","O","P">>, <<"U","N","T","I","L">>,
     <<"E","X","I","T">>, <<"S","E","L","E","C","T">>, <<"C","A","S","E">>,
     <<"G","O","T","O">>, <<"G","O","S","U","B">>, <<"R","E","T","U","R","N">>,
     <<"O","N">>, <<"R","E","A","D">>, <<"D","A","T","A">>,
     <<"R","E","S","T","O","R","E">>, <<"D","E","F">>, <<"F","N">>, <<"O","P","E","N">>,
     <<"C","L","O","S","E">>, <<"G","E","T">>, <<"P","U","T">>, <<"W","R","I","T","E">>,
     <<"F","I","E","L","D">>, <<"L","S","E","T">>, <<"R","S","E","T">>, <<"A","S">>,
     <<"O","U","T","P","U","T">>, <<"A","P","P","E","N","D">>, <<"R","A","N","D","O","M">>,
     <<"B","I","N","A","R","Y">>, <<"S","C","R","E","E","N">>, <<"C","O","L","O","R">>,
     <<"C","L","S">>, <<"L","O","C","A","T","E">>, <<"W","I","D","T","H">>,
     <<"C","I","R","C","L","E">>, <<"P","A","I","N","T">>, <<"P","S","E","T">>,
     <<"P","R","E","S","E","T">>, <<"D","R","A","W">>, <<"P","L","A","Y">>,
     <<"S","O","U","N","D">>, <<"B","E","E","P">>, <<"S","W","A","P">>,
     <<"R","A","N","D","O","M","I","Z","E">>, <<"C","L","E","A","R">>, <<"S","T","O","P">>,
     <<"P","O","K","E">>, <<"P","E","E","K">>, <<"O","U","T">>, <<"I","N","P">>,
     <<"W","A","I","T">>, <<"A","N","D">>, <<"O","R">>, <<"X","O","R">>, <<"N","O","T">>,
     <<"M","O","D">>, <<"I","M","P">>, <<"E","Q","V">>, <<"K","I","L","L">>,
     <<"N","A","M","E">>, <<"M","K","D","I","R">>, <<"R","M","D","I","R">>,
     <<"C","H","D","I","R">>, <<"F","I","L","E","S">>, <<"C","A","L","L">>,
     <<"C","H","A","I","N">>, <<"C","O","M","M","O","N">>, <<"S","H","A","R","E","D">>,
     <<"S","T","A","T","I","C">>}

diag_is_keyword(word) == word \in DiagKeywords

is_function(word) == word \in DiagFunctions

is_builtin_var(var) == var \in BuiltinVars

rename_is_keyword(word) == word \in RenameKeywords

-----------------------------------------------------------------------------
(* diagnostics.rs: the Variable Symbol Index. *)

\* a site is (row, start column, end column)
Site(l, s, e) == [line |-> l, start |-> s, end |-> e]

EmptyMap == <<>>

\* map.entry(k).or_default().push(v)
push(m, k, v) ==
    IF k \in DOMAIN m THEN [m EXCEPT ![k] = Append(@, v)] ELSE m @@ (k :> <<v>>)

skip_line_number(line) ==
    LET trimmed == trim_start(line)
        fw == first_word(trimmed)
    IN  IF fw # <<>> /\ parse_u32(fw) # None THEN trim_start(From(trimmed, Len(fw)))
        ELSE line

\* the identifier s begins with (after trimming), with one optional '$';
\* the empty string stands for None
extract_var(s) ==
    LET stops == {i \in 1..(Len(s) - 1) : ~(is_ascii_alphanumeric(s[i + 1]) \/ s[i + 1] = "_")}
        e1 == IF stops = {} THEN Len(s) ELSE Min(stops)
        e2 == IF e1 < Len(s) /\ s[e1 + 1] = "$" THEN e1 + 1 ELSE e1
    IN  IF s = <<>> THEN <<>>
        ELSE IF ~is_ascii_alphabetic(s[1]) THEN <<>>
        ELSE Slice(s, 0, e2)

extract_var_with_pos(s0) == extract_var(trim(s0))

IsIdentByte(c) == is_ascii_alphanumeric(c) \/ c = "_" \/ c = "$"

RECURSIVE find_variable_usages_from(_, _, _, _, _)
find_variable_usages_from(line, pos, line_num, definitions, usages) ==
    IF pos >= Len(line) THEN usages
    ELSE IF ~is_ascii_alphabetic(line[pos + 1])
    THEN find_variable_usages_from(line, pos + 1, line_num, definitions, usages)
    ELSE
        LET stops == {i \in pos..(Len(line) - 1) : ~IsIdentByte(line[i + 1])}
            endp == IF stops = {} THEN Len(line) ELSE Min(stops)
            word == Slice(line, pos, endp)
            is_def_site ==
                /\ word \in DOMAIN definitions
                /\ \E i \in DOMAIN definitions[word] :
                       /\ definitions[word][i].line = line_num
                       /\ definitions[word][i].start = pos
            next ==
                IF ~diag_is_keyword(word) /\ ~is_function(word) /\ ~is_def_site
                THEN push(usages, word, Site(line_num, pos, endp))
                ELSE usages
        IN  find_variable_usages_from(line, endp, line_num, definitions, next)

find_variable_usages(line, line_num, definitions, usages) ==
    find_variable_usages_from(line, 0, line_num, definitions, usages)

\* Option::unwrap_or
unwrap_or(x, default) == IF x = None THEN default ELSE x

\* the site of a variable name found at column start
var_site(line_num, start, var) == Site(line_num, start, start + Len(var))

\* the declaration site one list item adds, var being the name it begins with
define_item(var, item, upper, line_num, byItem, definitions) ==
    IF var = <<>> THEN definitions
    ELSE push(definitions, var,
              var_site(line_num, unwrap_or(find(upper, IF byItem THEN item ELSE var), 0), var))

\* the declaration sites one comma list (DIM, INPUT, READ) adds; DIM locates
\* the untrimmed list item in the row, the others locate the variable name
RECURSIVE define_list(_, _, _, _, _)
define_list(items, upper, line_num, byItem, definitions) ==
    IF items = <<>> THEN definitions
    ELSE
        define_list(Tail(items), upper, line_num, byItem,
                    define_item(extract_var_with_pos(trim(items[1])), items[1],
                                upper, line_num, byItem, definitions))

kLET == <<"L","E","T"," ">>
kDIM == <<"D","I","M"," ">>
kFOR == <<"F","O","R"," ">>
kINPUT == <<"I","N","P","U","T"," ">>
kREAD == <<"R","E","A","D"," ">>
kIF == <<"I","F"," ">>
kON == <<"O","N"," ">>
kPRINT == <<"P","R","I","N","T">>
kGOTO == <<"G","O","T","O">>
kGOSUB == <<"G","O","S","U","B">>
kREM == <<"R","E","M">>
kEND == <<"E","N","D">>
kSTOP == <<"S","T","O","P">>
kRETURN == <<"R","E","T","U","R","N">>

\* the (start, end) column offsets a LET declaration site is recorded with
let_site(line_num, offset, rest) ==
    LET eq == find(rest, <<"=">>)
    IN  Site(line_num, offset, offset + (IF eq = None THEN Len(rest) ELSE eq))

\* the declaration matching of one sub-statement (the if / else-if chain)
define_part(part, upper, line_num, offset, definitions) ==
    IF starts_with(part, kLET) THEN
        LET rest == From(part, 4)
            var == extract_var_with_pos(rest)
        IN  IF var = <<>> THEN definitions
            ELSE push(definitions, var, let_site(line_num, offset, rest))
    ELSE IF starts_with(part, kDIM) THEN
        define_list(split(From(part, 4), ","), upper, line_num, TRUE, definitions)
    ELSE IF starts_with(part, kFOR) THEN
        define_list(<<From(part, 4)>>, upper, line_num, FALSE, definitions)
    ELSE IF starts_with(part, kINPUT) THEN
        LET rest == From(part, 6)
            semi == find(rest, <<";">>)
            vars_part == IF semi # None THEN From(rest, semi + 1) ELSE rest
        IN  define_list(split(vars_part, ","), upper, line_num, FALSE, definitions)
    ELSE IF starts_with(part, kREAD) THEN
        define_list(split(From(part, 5), ","), upper, line_num, FALSE, definitions)
    ELSE IF /\ ~starts_with(part, kIF)
            /\ ~starts_with(part, kPRINT)
            /\ ~starts_with(part, kGOTO)
            /\ ~starts_with(part, kGOSUB)
    THEN
        LET eq_pos == find(part, <<"=">>)
            before_eq == IF eq_pos = None THEN <<>> ELSE trim(Slice(part, 0, eq_pos))
        IN  IF eq_pos # None /\ ~contains(before_eq, <<" ">>) /\ before_eq # <<>>
            THEN define_list(<<before_eq>>, upper, line_num, FALSE, definitions)
            ELSE definitions
    ELSE definitions

\* the usage scan of the whole row, after the declaration matching of one
\* sub-statement gave definitions
with_usages(definitions, upper, line_num, usages) ==
    [definitions |-> definitions,
     usages |-> find_variable_usages(upper, line_num, definitions, usages)]

\* the loop over the ':'-separated sub-statements of one row: declaration
\* matching of the sub-statement, then the usage scan of the whole row
RECURSIVE analyze_parts(_, _, _, _, _)
analyze_parts(parts, upper, line_num, offset, st) ==
    IF parts = <<>> THEN st
    ELSE
        analyze_parts(Tail(parts), upper, line_num, offset,
                      with_usages(define_part(trim(parts[1]), upper, line_num, offset,
                                              st.definitions),
                                  upper, line_num, st.usages))

RECURSIVE analyze_lines(_, _, _)
analyze_lines(source, line_idx, st) ==
    IF line_idx >= Len(source) THEN st
    ELSE
        LET upper == to_uppercase(source[line_idx + 1])
            content == skip_line_number(upper)
            offset == Len(upper) - Len(content)
        IN  analyze_lines(source, line_idx + 1,
                          analyze_parts(split(content, ":"), upper, line_idx, offset, st))

analyze_variables(source) ==
    analyze_lines(source, 0, [definitions |-> EmptyMap, usages |-> EmptyMap])


-----------------------------------------------------------------------------
(* diagnostics.rs: diagnostics. *)

\* a Diagnostic: its range, severity, message and tags; kind names the rule
\* that pushed it (the taxonomy of the error handling design)
Diagnostic(k, l0, c0, l1, c1, sev, msg, tg) ==
    [kind |-> k, line |-> l0, character |-> c0, end_line |-> l1, end_character |-> c1,
     severity |-> sev, message |-> msg, tags |-> tg]

RECURSIVE Concat(_)
Concat(ss) == IF ss = <<>> THEN <<>> ELSE ss[1] \o Concat(Tail(ss))

RECURSIVE SetToSeq(_)
SetToSeq(S) ==
    IF S = {} THEN <<>>
    ELSE LET x == CHOOSE y \in S : TRUE IN <<x>> \o SetToSeq(S \ {x})

\* the leading BASIC line number of a row, or None
leading_number(line) ==
    LET fw == first_word(trim_start(line))
    IN  IF fw = <<>> THEN None ELSE parse_u32(fw)

JumpKeywords ==
    <<kGOTO \o <<" ">>, kGOSUB \o <<" ">>, <<"T","H","E","N"," ">>,
      <<"R","E","S","T","O","R","E"," ">>>>

\* the offsets just after each occurrence of keyword in upper, the search
\* restarting at that offset (the while-let loop)
RECURSIVE keyword_hits(_, _, _)
keyword_hits(upper, keyword, search_start) ==
    LET kw_pos == find(From(upper, search_start), keyword)
        abs_pos == search_start + kw_pos + Len(keyword)
    IN  IF kw_pos = None THEN <<>>
        ELSE <<abs_pos>> \o keyword_hits(upper, keyword, abs_pos)

\* the items of a comma list up to the first one that is not a number
RECURSIVE number_list(_)
number_list(parts) ==
    IF parts = <<>> THEN <<>>
    ELSE
        LET num_str == first_word(trim(parts[1]))
            target == parse_u32(num_str)
        IN  IF target = None THEN <<>>
            ELSE <<[num_part |-> parts[1], num_str |-> num_str, target |-> target]>>
                 \o number_list(Tail(parts))

\* every (offset after the keyword, list item) of one row, in the code's order
jump_items(text, upper) ==
    Concat([k \in DOMAIN JumpKeywords |->
        LET hits == keyword_hits(upper, JumpKeywords[k], 0)
        IN  Concat([h \in DOMAIN hits |->
                LET items == number_list(split(From(text, hits[h]), ","))
                IN  [i \in DOMAIN items |-> [abs_pos |-> hits[h], item |-> items[i]]]])])

find_jump_targets(source) ==
    UNION {{it.item.target : it \in Range(jump_items(to_uppercase(source[r]),
                                                      to_uppercase(source[r])))}
           : r \in DOMAIN source}

msgLine == <<"L","i","n","e"," ">>
msgIsNotDefined == <<" ","i","s"," ","n","o","t"," ","d","e","f","i","n","e","d">>
msgVariable == <<"V","a","r","i","a","b","l","e"," ","'">>
msgMayNotBeDefined ==
    <<"'"," ","m","a","y"," ","n","o","t"," ","b","e"," ","d","e","f","i","n","e","d">>
msgNeverUsed ==
    <<"'"," ","i","s"," ","d","e","f","i","n","e","d"," ","b","u","t"," ",
      "n","e","v","e","r"," ","u","s","e","d">>
msgUnreachable == <<"U","n","r","e","a","c","h","a","b","l","e"," ","c","o","d","e">>

\* the column where the Error for a list item starts
undefined_line_start(abs_pos, num_part) ==
    abs_pos + (Len(num_part) - Len(trim_start(num_part)))

undefined_line_diagnostic(line_idx, abs_pos, item) ==
    LET char_start == undefined_line_start(abs_pos, item.num_part)
    IN  Diagnostic("undefined-line", line_idx, char_start,
                   line_idx, char_start + Len(item.num_str),
                   "ERROR", msgLine \o to_string(item.target) \o msgIsNotDefined, {})

check_undefined_lines(source) ==
    LET defined_lines == {leading_number(source[r]) : r \in DOMAIN source} \ {None}
    IN  Concat([r \in DOMAIN source |->
            LET its == jump_items(source[r], to_uppercase(source[r]))
                bad == SelectSeq(its, LAMBDA it : it.item.target \notin defined_lines)
            IN  [i \in DOMAIN bad |->
                    undefined_line_diagnostic(r - 1, bad[i].abs_pos, bad[i].item)]])

makes_unreachable(content, upper) ==
    \/ content = kEND
    \/ content = kSTOP
    \/ content = kRETURN
    \/ /\ starts_with(content, kGOTO \o <<" ">>)
       /\ ~contains(upper, kIF)
       /\ ~contains(upper, kON)

LineEnd == 1000

\* mutant of unreachable_hint: the range runs through the row that closes it
unreachable_hint_through_target(start, line_num) ==
    Diagnostic("unreachable", start + 1, 0, line_num, LineEnd,
               "HINT", msgUnreachable, {"UNNECESSARY"})

unreachable_hint(start, line_num) ==
    Diagnostic("unreachable", start + 1, 0, line_num - 1, LineEnd,
               "HINT", msgUnreachable, {"UNNECESSARY"})

RECURSIVE check_unreachable_from(_, _, _, _, _)
check_unreachable_from(lines, line_idx, unreachable_start, jump_targets, diags) ==
    IF line_idx >= Len(lines) THEN diags
    ELSE
        LET line == lines[line_idx + 1]
            upper == to_uppercase(line)
            content == trim(skip_line_number(upper))
            basic_line == leading_number(line)
            is_target == basic_line # None /\ basic_line \in jump_targets
            taken == IF is_target THEN None ELSE unreachable_start
            diags1 ==
                IF is_target /\ unreachable_start # None /\ line_idx > unreachable_start + 1
                THEN Append(diags, unreachable_hint(unreachable_start, line_idx))
                ELSE diags
            skipped ==
                \/ content = <<>>
                \/ starts_with(content, kREM)
                \/ starts_with(content, <<"'">>)
            start1 ==
                IF skipped \/ taken # None THEN taken
                ELSE IF makes_unreachable(content, upper) THEN line_idx
                ELSE None
        IN  check_unreachable_from(lines, line_idx + 1, start1, jump_targets, diags1)

\* mutant of check_unreachable_code: the end of the document closes a region
\* the way a jump target does
check_unreachable_code_to_end(source) ==
    LET targets == find_jump_targets(source)
        open == {t \in 0..(Len(source) - 2) :
                    /\ makes_unreachable(trim(skip_line_number(to_uppercase(source[t + 1]))),
                                         to_uppercase(source[t + 1]))
                    /\ \A r \in (t + 1)..(Len(source) - 1) :
                           leading_number(source[r + 1]) \notin targets}
    IN  check_unreachable_from(source, 0, None, targets, <<>>)
            \o (IF open = {} THEN <<>> ELSE <<unreachable_hint(Min(open), Len(source))>>)

check_unreachable_code(source) ==
    check_unreachable_from(source, 0, None, find_jump_targets(source), <<>>)

undefined_variable_diagnostic(var, site) ==
    Diagnostic("undefined-variable", site.line, site.start, site.line, site.end,
               "WARNING", msgVariable \o var \o msgMayNotBeDefined, {})

unused_variable_diagnostic(var, site) ==
    Diagnostic("unused-variable", site.line, site.start, site.line, site.end,
               "HINT", msgVariable \o var \o msgNeverUsed, {"UNNECESSARY"})

\* the Warnings of the loop over the usages map (in any key order)
undefined_variable_diagnostics(definitions, usages) ==
    LET vs == SetToSeq({v \in DOMAIN usages : v \notin DOMAIN definitions /\ ~is_builtin_var(v)})
    IN  Concat([k \in DOMAIN vs |->
            [i \in DOMAIN usages[vs[k]] |->
                undefined_variable_diagnostic(vs[k], usages[vs[k]][i])]])

\* the Hints of the loop over the definitions map (in any key order)
unused_variable_diagnostics(definitions, usages) ==
    LET vs == SetToSeq({v \in DOMAIN definitions : v \notin DOMAIN usages})
    IN  [k \in DOMAIN vs |-> unused_variable_diagnostic(vs[k], definitions[vs[k]][1])]

\* the two loops over the (definitions, usages) pair
variable_diagnostics(st) ==
    undefined_variable_diagnostics(st.definitions, st.usages)
    \o unused_variable_diagnostics(st.definitions, st.usages)

\* the diagnostics of a document the grammar engine accepts, as a bag: the
\* two HashMap loops fix no order
check_warnings(source) ==
    SeqToBag(variable_diagnostics(analyze_variables(source))
             \o check_unreachable_code(source)
             \o check_undefined_lines(source))

msgLinePrefix == <<"L","i","n","e"," ">>
msgAtLine == <<"a","t"," ","l","i","n","e"," ">>

\* (line, message) extracted from the grammar engine's error text
parse_error_message(msg) ==
    LET rest == From(msg, 5)
        colon_pos == find(rest, <<":">>)
        n1 == IF starts_with(msg, msgLinePrefix) /\ colon_pos # None
              THEN parse_u32(trim(Slice(rest, 0, colon_pos))) ELSE None
        pos == find(msg, msgAtLine)
        after == From(msg, pos + 8)
        nondigit == {i \in 0..(Len(after) - 1) : ~is_ascii_digit(after[i + 1])}
        n2 == IF pos = None THEN None
              ELSE IF nondigit # {} THEN parse_u32(Slice(after, 0, Min(nondigit)))
              ELSE parse_u32(trim(after))
    IN  IF n1 # None THEN [line |-> n1, message |-> trim(From(rest, colon_pos + 1))]
        ELSE IF n2 # None THEN [line |-> n2, message |-> msg]
        ELSE [line |-> 0, message |-> msg]

find_source_line_for_basic_line(source, basic_line) ==
    LET rows == {r \in DOMAIN source : leading_number(source[r]) = basic_line}
    IN  IF rows = {} THEN 0 ELSE Min(rows) - 1

\* the one Error of a document the grammar engine rejects
syntax_error_diagnostic(source, msg) ==
    LET pm == parse_error_message(msg)
        source_line == find_source_line_for_basic_line(source, pm.line)
    IN  IF pm.line > 0
        THEN Diagnostic("syntax-error", source_line, 0, source_line, LineEnd,
                        "ERROR", pm.message, {})
        ELSE Diagnostic("syntax-error", 0, 0, 0, 0, "ERROR", pm.message, {})

\* mutant of check: the warnings are computed whatever the engine answers
check_always_warns(source, result) ==
    IF result.ok THEN check_warnings(source)
    ELSE SeqToBag(<<syntax_error_diagnostic(source, result.msg)>>) (+) check_warnings(source)

\* check(source), given what the grammar engine answers for source
check(source, result) ==
    IF result.ok THEN check_warnings(source)
    ELSE SeqToBag(<<syntax_error_diagnostic(source, result.msg)>>)

-----------------------------------------------------------------------------
(* The state machine: text changes and the diagnostics request. *)

\* rows a client types: the spec's scenarios and their neighbours
rowLetY == <<"1","0"," ","L","E","T"," ","Y"," ","="," ","1">>                  \* 10 LET Y = 1
rowEnd == <<"2","0"," ","E","N","D">>                                          \* 20 END
rowGoto99 == <<"1","0"," ","G","O","T","O"," ","9","9">>                        \* 10 GOTO 99
rowOnGoto ==                                                                   \* 30 ON X GOTO 10,99
    <<"3","0"," ","O","N"," ","X"," ","G","O","T","O"," ","1","0",",","9","9">>
rowTwoPrints ==                                                                \* 40 PRINT X: PRINT 1
    <<"4","0"," ","P","R","I","N","T"," ","X",":"," ","P","R","I","N","T"," ","1">>
rowTwoLets == <<"5","0"," ","A"," ","="," ","1",":"," ","B"," ","="," ","2">>   \* 50 A = 1: B = 2
rowRem == <<"9","9"," ","R","E","M">>                                          \* 99 REM
rowErr == <<"7","0"," ","z"," ","="," ","E","R","R">>                          \* 70 z = ERR

DiagRows ==
    {rowLetY, rowEnd, rowGoto99, rowOnGoto, rowTwoPrints, rowTwoLets, rowRem, rowErr}

\* what the grammar engine may answer: success, or an error text in one of
\* the three shapes parse_error_message distinguishes
ParseOk == [ok |-> TRUE, msg |-> <<>>]

ParseErr(m) == [ok |-> FALSE, msg |-> m]

ParserMessages ==
    {<<"L","i","n","e"," ","2","0",":"," ","b","a","d">>,         \* Line 20: bad
     <<"b","a","d"," ","a","t"," ","l","i","n","e"," ","9","9">>, \* bad at line 99
     <<"b","a","d">>}                                             \* bad

ParseResults == {ParseOk} \cup {ParseErr(m) : m \in ParserMessages}

NoParse == [ok |-> FALSE, msg |-> <<>>]

NoSymbols == [definitions |-> EmptyMap, usages |-> EmptyMap]

NoCursor == [line |-> 0, character |-> 0]

NoEdits == [status |-> "none", edits |-> <<>>]

NoResponse == [request |-> "none"]

Init ==
    /\ doc = <<>>
    /\ op = "edit"
    /\ parsed = NoParse
    /\ diagnostics = EmptyBag
    /\ symbols = NoSymbols
    /\ cursor = NoCursor
    /\ newName = <<>>
    /\ edits = NoEdits
    /\ doc2 = <<>>
    /\ edits2 = NoEdits
    /\ foldingRanges = <<>>
    /\ response = NoResponse
    /\ documents = <<>>
    /\ writer = 0
    /\ notifications = <<>>
    /\ client = <<>>

\* the client changes the text: the snapshot gains a row and every earlier
\* result is dropped
Edit(row) ==
    /\ doc' = Append(doc, row)
    /\ op' = "edit"
    /\ parsed' = NoParse
    /\ diagnostics' = EmptyBag
    /\ symbols' = NoSymbols
    /\ cursor' = NoCursor
    /\ newName' = <<>>
    /\ edits' = NoEdits
    /\ doc2' = <<>>
    /\ edits2' = NoEdits
    /\ foldingRanges' = <<>>
    /\ response' = NoResponse
    /\ UNCHANGED <<documents, writer, notifications, client>>

EditDiag ==
    /\ Len(doc) < MaxRows
    /\ \E row \in DiagRows : Edit(row)

\* check(text): the grammar engine answers result, and the diagnostics follow
Check ==
    /\ op = "edit"
    /\ \E result \in ParseResults :
        /\ parsed' = result
        /\ diagnostics' = check(doc, result)
        /\ symbols' = IF result.ok THEN analyze_variables(doc) ELSE NoSymbols
    /\ op' = "check"
    /\ UNCHANGED <<documents, writer, notifications, client,
                   doc, cursor, newName, edits, doc2, edits2, foldingRanges, response>>

NextDiag == EditDiag \/ Check

SpecDiag == Init /\ [][NextDiag]_vars

-----------------------------------------------------------------------------
(* Claims about diagnostics (SpecDiag). *)

Checked == op = "check"

Accepted == Checked /\ parsed.ok

Rejected == Checked /\ ~parsed.ok

DiagnosticsOfKind(k) == {d \in BagToSet(diagnostics) : d.kind = k}

\* the references of a comma list that starts at column q of text: each item
\* with the columns of its own digits
RECURSIVE ReferencesFrom(_, _)
ReferencesFrom(text, q) ==
    LET commas == {i \in q..(Len(text) - 1) : text[i + 1] = ","}
        stop == IF commas = {} THEN Len(text) ELSE Min(commas)
        part == Slice(text, q, stop)
        word == first_word(part)
        from == q + FirstNonWs(part)
    IN  IF parse_u32(word) = None THEN {}
        ELSE {[start |-> from, end |-> from + Len(word), target |-> parse_u32(word)]}
             \cup (IF stop < Len(text) THEN ReferencesFrom(text, stop + 1) ELSE {})

\* the jump references of the document: a line number after GOTO, GOSUB, THEN
\* or RESTORE, or in the comma list that follows
JumpReferences ==
    UNION {UNION {UNION {
        {[line |-> r - 1, start |-> ref.start, end |-> ref.end, target |-> ref.target]
            : ref \in ReferencesFrom(doc[r], p + Len(JumpKeywords[k]))}
        : p \in {i \in 0..(Len(doc[r]) - Len(JumpKeywords[k])) :
                    Slice(to_uppercase(doc[r]), i, i + Len(JumpKeywords[k])) = JumpKeywords[k]}}
        : k \in DOMAIN JumpKeywords}
        : r \in DOMAIN doc}

DefinedLineNumbers == {leading_number(doc[r]) : r \in DOMAIN doc} \ {None}

UndefinedReferences == {ref \in JumpReferences : ref.target \notin DefinedLineNumbers}

LineNotDefined(ref) ==
    Diagnostic("undefined-line", ref.line, ref.start, ref.line, ref.end, "ERROR",
               msgLine \o to_string(ref.target) \o msgIsNotDefined, {})

\* C1: when the grammar engine accepts the document, check() emits exactly one
\* Error "Line <N> is not defined" per jump reference whose target no row
\* defines, its range covering exactly the digits of that reference, and no
\* such Error for anything else.
C1_UndefinedLineErrors ==
    Accepted =>
        /\ \A ref \in UndefinedReferences : CopiesIn(LineNotDefined(ref), diagnostics) = 1
        /\ \A d \in DiagnosticsOfKind("undefined-line") :
               \E ref \in UndefinedReferences : d = LineNotDefined(ref)

\* the identifier words of a row (case-folded): each maximal run of
\* identifier bytes that begins with a letter
IdentifierWords(row) ==
    LET upper == to_uppercase(row)
        starts == {p \in 0..(Len(upper) - 1) :
                      /\ is_ascii_alphabetic(upper[p + 1])
                      /\ (p = 0 \/ ~IsIdentByte(upper[p]))}
        EndOf(p) == LET stops == {i \in p..(Len(upper) - 1) : ~IsIdentByte(upper[i + 1])}
                    IN  IF stops = {} THEN Len(upper) ELSE Min(stops)
    IN  {[start |-> p, end |-> EndOf(p), word |-> Slice(upper, p, EndOf(p))] : p \in starts}

\* the places where var is written in the document
Occurrences(var) ==
    UNION {{[line |-> r - 1, start |-> w.start, end |-> w.end]
               : w \in {x \in IdentifierWords(doc[r]) : x.word = var}}
           : r \in DOMAIN doc}

NeverUsedHints(var) ==
    {d \in DiagnosticsOfKind("unused-variable") :
        d.message = msgVariable \o var \o msgNeverUsed}

BagSize(b) == BagCardinality(b)

\* C2: when the grammar engine accepts the document, every variable that has
\* a declaration site and is written nowhere else gets exactly one Hint
\* "Variable '<NAME>' is defined but never used", tagged unnecessary, at its
\* declaration; 10 LET Y = 1 / 20 END yields that one Hint on row 0 and
\* nothing else.
C2_UnusedVariableHint ==
    Accepted =>
        /\ \A var \in DOMAIN symbols.definitions :
               Cardinality(Occurrences(var)) = 1 =>
                   /\ Cardinality(NeverUsedHints(var)) = 1
                   /\ \A d \in NeverUsedHints(var) :
                          /\ CopiesIn(d, diagnostics) = 1
                          /\ d.severity = "HINT"
                          /\ d.tags = {"UNNECESSARY"}
                          /\ \E o \in Occurrences(var) : o.line = d.line
        /\ doc = <<rowLetY, rowEnd>> => BagSize(diagnostics) = 1

UndeclaredVariables ==
    {v \in DOMAIN symbols.usages : v \notin DOMAIN symbols.definitions /\ ~is_builtin_var(v)}

MayNotBeDefined(var, site) ==
    Diagnostic("undefined-variable", site.line, site.start, site.line, site.end,
               "WARNING", msgVariable \o var \o msgMayNotBeDefined, {})

\* C3: when the grammar engine accepts the document, every usage site of a
\* variable that has no declaration site and is no built-in pseudo-variable
\* gets exactly one Warning, also on rows with several sub-statements, and a
\* variable with a declaration site on any row gets none.
C3_UndefinedVariableWarnings ==
    Accepted =>
        /\ \A var \in UndeclaredVariables :
               \A i \in DOMAIN symbols.usages[var] :
                   CopiesIn(MayNotBeDefined(var, symbols.usages[var][i]), diagnostics) = 1
        /\ \A d \in DiagnosticsOfKind("undefined-variable") :
               \E var \in UndeclaredVariables :
                   \E i \in DOMAIN symbols.usages[var] :
                       d = MayNotBeDefined(var, symbols.usages[var][i])

\* C4: when the grammar engine rejects the document, check() returns exactly
\* one diagnostic, the syntax Error carrying the engine's message, and none of
\* the warnings; a syntax Error appears only then.
C4_ParseFailureOnly ==
    /\ Rejected =>
           /\ BagSize(diagnostics) = 1
           /\ \A d \in BagToSet(diagnostics) :
                  /\ d.kind = "syntax-error"
                  /\ d.severity = "ERROR"
                  /\ d.message = parse_error_message(parsed.msg).message
    /\ Accepted => DiagnosticsOfKind("syntax-error") = {}

\* a rejected document that would have drawn warnings, had it been accepted
C4_Witness ==
    /\ Rejected
    /\ Len(doc) >= 2
    /\ BagSize(check_warnings(doc)) >= 2

\* the statement content of a row: the case-folded text after the leading
\* line number
StatementContent(row) == trim(skip_line_number(to_uppercase(row)))

\* a row after which control cannot fall through
IsTerminatorRow(row) ==
    \/ StatementContent(row) \in {kEND, kSTOP, kRETURN}
    \/ /\ starts_with(StatementContent(row), <<"G","O","T","O"," ">>)
       /\ ~contains(to_uppercase(row), <<"I","F"," ">>)
       /\ ~contains(to_uppercase(row), <<"O","N"," ">>)

IsJumpTargetRow(row) ==
    leading_number(row) # None /\ leading_number(row) \in find_jump_targets(doc)

\* C5: every unreachable-code Hint covers a non-empty range of rows that lie
\* strictly after a terminator row (END, STOP, RETURN, unconditional GOTO),
\* with no jump-target row between the terminator and the end of the range,
\* so no row of the range is a jump target.
C5_UnreachableHints ==
    Checked =>
        \A d \in DiagnosticsOfKind("unreachable") :
            /\ d.line <= d.end_line
            /\ d.end_line < Len(doc)
            /\ \E t \in 0..(d.line - 1) :
                   /\ IsTerminatorRow(doc[t + 1])
                   /\ \A k \in (t + 1)..d.end_line : ~IsJumpTargetRow(doc[k + 1])

\* an accepted document with an unreachable-code Hint
C5_Witness == Accepted /\ DiagnosticsOfKind("unreachable") # {}

\* C6: no (row, column) is recorded both as a declaration site and as a usage
\* site of the same variable.
C6_SiteNotBoth ==
    Accepted =>
        \A var \in (DOMAIN symbols.definitions) \cap (DOMAIN symbols.usages) :
            \A i \in DOMAIN symbols.definitions[var] :
                \A j \in DOMAIN symbols.usages[var] :
                    ~(/\ symbols.definitions[var][i].line = symbols.usages[var][j].line
                      /\ symbols.definitions[var][i].start = symbols.usages[var][j].start)

-----------------------------------------------------------------------------
(* rename.rs: rename. *)

is_word_char(b) == is_ascii_alphanumeric(b) \/ b = "_" \/ b = "$"

\* (start, end, word) of the word around char_pos; start = None when there
\* is no word there
get_word_at_position(line, char_pos0) ==
    LET char_pos == IF char_pos0 < Len(line) THEN char_pos0 ELSE Len(line)
        lefts == {i \in 0..char_pos : \A j \in i..(char_pos - 1) : is_word_char(line[j + 1])}
        rights == {i \in char_pos..Len(line) : \A j \in char_pos..(i - 1) : is_word_char(line[j + 1])}
        start == Min(lefts)
        end == Max(rights)
    IN  IF start < end THEN [start |-> start, end |-> end, word |-> Slice(line, start, end)]
        ELSE [start |-> None, end |-> None, word |-> <<>>]

\* mutant of trim_end_dollars: nothing is stripped
keep_dollars(s) == s

\* new_name.trim_end_matches('$')
RECURSIVE trim_end_dollars(_)
trim_end_dollars(s) ==
    IF s # <<>> /\ s[Len(s)] = "$" THEN trim_end_dollars(SubSeq(s, 1, Len(s) - 1)) ELSE s

\* mutant of replacement: the '$' of the occurrence is not carried over
replacement_as_typed(new_name, has_suffix) == new_name

\* the text an occurrence is replaced by; has_suffix: it carried a trailing '$'
replacement(new_name, has_suffix) ==
    IF has_suffix
    THEN IF ends_with(new_name, <<"$">>) THEN new_name ELSE new_name \o <<"$">>
    ELSE trim_end_dollars(new_name)

TextEdit(l, s, e, t) == [line |-> l, start |-> s, end |-> e, new_text |-> t]

\* the edits of one row: the while-let loop over the occurrences of base_name
RECURSIVE rename_line(_, _, _, _, _)
rename_line(upper, base_name, new_name, line_idx, search_start) ==
    LET pos == find(From(upper, search_start), base_name)
        abs_pos == search_start + pos
        before_ok ==
            \/ abs_pos = 0
            \/ /\ ~is_ascii_alphanumeric(upper[abs_pos])
               /\ upper[abs_pos] # "_"
               /\ upper[abs_pos] # "$"
        after_pos == abs_pos + Len(base_name)
        after_ok ==
            \/ after_pos >= Len(upper)
            \/ /\ ~is_ascii_alphanumeric(upper[after_pos + 1])
               /\ upper[after_pos + 1] # "_"
        end_pos == IF after_pos < Len(upper) /\ upper[after_pos + 1] = "$"
                   THEN after_pos + 1 ELSE after_pos
        here == IF before_ok /\ after_ok
                THEN <<TextEdit(line_idx, abs_pos, end_pos,
                                replacement(new_name, end_pos > after_pos))>>
                ELSE <<>>
    IN  IF pos = None THEN <<>>
        ELSE here \o rename_line(upper, base_name, new_name, line_idx, abs_pos + 1)

\* rename_symbol(source, position, new_name): "none" for None, "edits" for
\* a WorkspaceEdit, "panic" when the search slices past the end of a row
\* (an empty base name matches at every offset, the row's length included)
rename_symbol(source, position, new_name) ==
    LET w == IF position.line < Len(source)
             THEN get_word_at_position(source[position.line + 1], position.character)
             ELSE [start |-> None, end |-> None, word |-> <<>>]
        var_upper == to_uppercase(w.word)
        is_string_var == ends_with(var_upper, <<"$">>)
        base_name == IF is_string_var THEN SubSeq(var_upper, 1, Len(var_upper) - 1)
                     ELSE var_upper
        found == Concat([r \in DOMAIN source |->
                     rename_line(to_uppercase(source[r]), base_name, new_name, r - 1, 0)])
    IN  IF w.start = None THEN NoEdits
        ELSE IF parse_u32(w.word) # None \/ rename_is_keyword(var_upper) THEN NoEdits
        ELSE IF base_name = <<>> THEN [status |-> "panic", edits |-> <<>>]
        ELSE IF found = <<>> THEN NoEdits
        ELSE [status |-> "edits", edits |-> found]

-----------------------------------------------------------------------------
(* The client's side of rename: applying a WorkspaceEdit to the snapshot. *)

EditsOfRow(es, r) == {e \in Range(es) : e.line = r}

\* the edits of one row applied from the rightmost to the leftmost
RECURSIVE ApplyToRow(_, _)
ApplyToRow(row, es) ==
    IF es = {} THEN row
    ELSE LET e == CHOOSE x \in es : \A y \in es : y.start <= x.start
         IN  ApplyToRow(Slice(row, 0, e.start) \o e.new_text \o From(row, e.end), es \ {e})

ApplyEdits(source, es) == [r \in DOMAIN source |-> ApplyToRow(source[r], EditsOfRow(es, r - 1))]

\* where the replacement text of edit e starts once all edits are applied
ImageStart(es, e) ==
    LET before == SetToSeq({x \in EditsOfRow(es, e.line) : x.start < e.start})
        RECURSIVE Shift(_)
        Shift(q) == IF q = <<>> THEN 0
                    ELSE Len(q[1].new_text) - (q[1].end - q[1].start) + Shift(Tail(q))
    IN  e.start + Shift(before)

-----------------------------------------------------------------------------
(* The state machine: rename, the client applying it, and the inverse rename. *)

MaxRenameRows == 2

rowLetAs ==                                                \* 10 LET A$ = "hi"
    <<"1","0"," ","L","E","T"," ","A","$"," ","="," ","\"","h","i","\"">>
rowPrintAs == <<"2","0"," ","P","R","I","N","T"," ","A","$">>      \* 20 PRINT A$
rowIncA == <<"3","0"," ","a"," ","="," ","A"," ","+"," ","1">>     \* 30 a = A + 1
rowLetB == <<"4","0"," ","B"," ","="," ","2">>                     \* 40 B = 2

RenameRows == {rowLetAs, rowPrintAs, rowIncA, rowLetB}

\* new names a client asks for: a name the document may hold already, a fresh
\* string-typed name in lower case, a keyword
NewNames == {<<"B">>, <<"c","n","$">>, <<"T","O">>}

EditRename ==
    /\ Len(doc) < MaxRenameRows
    /\ \E row \in RenameRows : Edit(row)

\* the rename request at a cursor position of the snapshot
Rename ==
    /\ op = "edit"
    /\ doc # <<>>
    /\ \E l \in 0..(Len(doc) - 1) : \E c \in 0..Len(doc[l + 1]) : \E name \in NewNames :
        /\ cursor' = [line |-> l, character |-> c]
        /\ newName' = name
        /\ edits' = rename_symbol(doc, [line |-> l, character |-> c], name)
    /\ op' = "rename"
    /\ UNCHANGED <<documents, writer, notifications, client,
                   doc, parsed, diagnostics, symbols, doc2, edits2, foldingRanges, response>>

\* the client applies the returned edits to its text
ApplyRename ==
    /\ op = "rename"
    /\ edits.status = "edits"
    /\ doc2' = ApplyEdits(doc, edits.edits)
    /\ op' = "applied"
    /\ UNCHANGED <<documents, writer, notifications, client,
                   doc, parsed, diagnostics, symbols, cursor, newName, edits, edits2, foldingRanges, response>>

\* the token under the cursor of the rename request
CursorWord == get_word_at_position(doc[cursor.line + 1], cursor.character)

\* the edit that replaced the token under the cursor
CursorEdit ==
    CHOOSE e \in Range(edits.edits) : e.line = cursor.line /\ e.start = CursorWord.start

\* the inverse request: on the new text, at the occurrence the cursor was on,
\* back to the token's old name
RenameBack ==
    /\ op = "applied"
    /\ edits2' = rename_symbol(doc2,
                     [line |-> cursor.line, character |-> ImageStart(edits.edits, CursorEdit)],
                     CursorWord.word)
    /\ op' = "rename-back"
    /\ UNCHANGED <<documents, writer, notifications, client,
                   doc, parsed, diagnostics, symbols, cursor, newName, edits, doc2, foldingRanges, response>>

NextRename == EditRename \/ Rename \/ ApplyRename \/ RenameBack

SpecRename == Init /\ [][NextRename]_vars

-----------------------------------------------------------------------------
(* Claims about rename (SpecRename). *)

Renamed == op \in {"rename", "applied", "rename-back"}

\* the words of a row: the maximal runs of word characters
WordsOf(row) ==
    LET starts == {p \in 0..(Len(row) - 1) :
                      is_word_char(row[p + 1]) /\ (p = 0 \/ ~is_word_char(row[p]))}
        EndOf(p) == LET stops == {i \in p..(Len(row) - 1) : ~is_word_char(row[i + 1])}
                    IN  IF stops = {} THEN Len(row) ELSE Min(stops)
    IN  {[start |-> p, end |-> EndOf(p), word |-> Slice(row, p, EndOf(p))] : p \in starts}

HasDollar(word) == word # <<>> /\ word[Len(word)] = "$"

\* the case-folded name without its type suffix
BaseName(word) ==
    IF HasDollar(word) THEN SubSeq(to_uppercase(word), 1, Len(word) - 1)
    ELSE to_uppercase(word)

\* a token rename accepts: a word that is neither a number nor a keyword
IsVariableToken(word) ==
    /\ word # <<>>
    /\ parse_u32(word) = None
    /\ to_uppercase(word) \notin RenameKeywords

OnVariable == Renamed /\ CursorWord.start # None /\ IsVariableToken(CursorWord.word)

\* name without any trailing '$'
WithoutDollars(name) ==
    SubSeq(name, 1, Max({i \in 0..Len(name) : i = 0 \/ name[i] # "$"}))

\* what an occurrence written as word becomes under the new name
Renamed_Text(word, name) ==
    IF HasDollar(word) THEN (IF HasDollar(name) THEN name ELSE name \o <<"$">>)
    ELSE WithoutDollars(name)

\* one edit per whole-word occurrence of the base name of word in source
ExpectedEdits(source, word, name) ==
    UNION {{TextEdit(r - 1, w.start, w.end, Renamed_Text(w.word, name))
               : w \in {x \in WordsOf(source[r]) : BaseName(x.word) = BaseName(word)}}
           : r \in DOMAIN source}

rowLetBs ==                                                \* 10 LET B$ = "hi"
    <<"1","0"," ","L","E","T"," ","B","$"," ","="," ","\"","h","i","\"">>
rowPrintBs == <<"2","0"," ","P","R","I","N","T"," ","B","$">>      \* 20 PRINT B$

IsScenarioC7 ==
    /\ doc = <<rowLetAs, rowPrintAs>>
    /\ newName = <<"B">>
    /\ CursorWord.word = <<"A","$">>

\* C7: rename on a variable token replaces every case-insensitive whole-word
\* occurrence of the token's base name, an occurrence with '$' by the new name
\* ending in one '$', an occurrence without by the new name stripped of '$';
\* renaming A$ to B in 10 LET A$ = "hi" / 20 PRINT A$ gives B$ twice.
C7_RenameReplacesOccurrences ==
    OnVariable =>
        /\ edits.status = "edits"
        /\ Range(edits.edits) = ExpectedEdits(doc, CursorWord.word, newName)
        /\ Len(edits.edits) = Cardinality(ExpectedEdits(doc, CursorWord.word, newName))
        /\ IsScenarioC7 => ApplyEdits(doc, edits.edits) = <<rowLetBs, rowPrintBs>>

\* the scenario's rename has been answered
C7_Witness == op = "rename" /\ IsScenarioC7 /\ Len(edits.edits) = 2

\* the columns the first rename's replacement texts occupy in the new text
ImageStarts == {<<e.line, ImageStart(edits.edits, e)>> : e \in Range(edits.edits)}

\* the inverse rename edits the occurrences the first one wrote, and the
\* text is the original again up to letter case
RoundTrip ==
    /\ edits2.status = "edits"
    /\ {<<e.line, e.start>> : e \in Range(edits2.edits)} = ImageStarts
    /\ LET doc3 == ApplyEdits(doc2, edits2.edits)
       IN  [r \in DOMAIN doc3 |-> to_uppercase(doc3[r])] = [r \in DOMAIN doc |-> to_uppercase(doc[r])]

IsIdentifier(name) ==
    /\ name # <<>>
    /\ is_ascii_alphabetic(name[1])
    /\ \A i \in 2..Len(name) :
           \/ is_ascii_alphanumeric(name[i])
           \/ name[i] = "_"
           \/ (i = Len(name) /\ name[i] = "$")

\* base occurs in row at column p as a whole word in rename's sense
WholeWordAt(row, p, base) ==
    LET upper == to_uppercase(row)
    IN  /\ p + Len(base) <= Len(upper)
        /\ Slice(upper, p, p + Len(base)) = base
        /\ (p = 0 \/ ~is_word_char(upper[p]))
        /\ \/ p + Len(base) = Len(upper)
           \/ ~(is_ascii_alphanumeric(upper[p + Len(base) + 1]) \/ upper[p + Len(base) + 1] = "_")

\* Y is an identifier, no keyword, and the document does not hold its base name
FreshName(name) ==
    /\ IsIdentifier(name)
    /\ to_uppercase(name) \notin RenameKeywords
    /\ \A r \in DOMAIN doc : \A p \in 0..Len(doc[r]) : ~WholeWordAt(doc[r], p, BaseName(name))

-----------------------------------------------------------------------------
(* folding.rs: folding ranges. *)

\* a FoldingRange; construct names the rule that pushed it
FoldingRange(s, e, k, text, c) ==
    [start_line |-> s, end_line |-> e, kind |-> k, collapsed_text |-> text, construct |-> c]

\* str::split on a pattern: the parts around its occurrences, left to right
RECURSIVE split_str(_, _)
split_str(s, pat) ==
    LET i == find(s, pat)
    IN  IF i = None THEN <<s>>
        ELSE <<Slice(s, 0, i)>> \o split_str(From(s, i + Len(pat)), pat)

\* the keyword occurs in line with no letter or digit next to it (no keyword
\* asked for overlaps itself, so match_indices visits every occurrence)
contains_keyword(line, keyword) ==
    \E i \in 0..(Len(line) - Len(keyword)) :
        /\ Slice(line, i, i + Len(keyword)) = keyword
        /\ (i = 0 \/ ~is_ascii_alphanumeric(line[i]))
        /\ \/ i + Len(keyword) >= Len(line)
           \/ ~is_ascii_alphanumeric(line[i + Len(keyword) + 1])

fold_skip_line_number(line) ==
    LET trimmed == trim_start(line)
        fw == first_word(trimmed)
    IN  IF fw # <<>> /\ parse_u32(fw) # None THEN trim_start(From(trimmed, Len(fw)))
        ELSE line

\* the numbers find_gosub_targets collects from one row
gosub_targets_of_line(line) ==
    LET upper == to_uppercase(line)
        parts == split_str(upper, kGOSUB)
        heads == {parse_u32(first_word(trim_start(parts[i]))) : i \in DOMAIN parts}
        gosub_pos == find(upper, kGOSUB)
        listed == IF gosub_pos # None /\ contains(Slice(upper, 0, gosub_pos), kON)
                  THEN LET items == split(From(upper, gosub_pos + 5), ",")
                       IN  {parse_u32(trim(items[i])) : i \in DOMAIN items}
                  ELSE {}
    IN  (heads \cup listed) \ {None}

find_gosub_targets(source) == UNION {gosub_targets_of_line(source[r]) : r \in DOMAIN source}

kNEXT == <<"N","E","X","T">>
kTO == <<"T","O">>
kWHILE == <<"W","H","I","L","E">>
kWEND == <<"W","E","N","D">>
kDO == <<"D","O">>
kLOOP == <<"L","O","O","P">>
kSELECT == <<"S","E","L","E","C","T">>
kCASE == <<"C","A","S","E">>
kTHEN == <<"T","H","E","N">>
kDATA == <<"D","A","T","A">>
wFOR == <<"F","O","R">>
wIF == <<"I","F">>

\* mutant of stack_pop: the oldest open row is taken instead of the newest
stack_pop_oldest(stack) == [top |-> stack[1], rest |-> Tail(stack)]

\* Vec::pop on a non-empty stack
stack_pop(stack) == [top |-> stack[Len(stack)], rest |-> SubSeq(stack, 1, Len(stack) - 1)]

\* a closer row: pop, and push a region when the popped row is above it
close_construct(stack, line_num, construct, ranges) ==
    IF stack = <<>> THEN [stack |-> stack, ranges |-> ranges]
    ELSE [stack |-> stack_pop(stack).rest,
          ranges |-> IF line_num > stack_pop(stack).top
                     THEN Append(ranges, FoldingRange(stack_pop(stack).top, line_num,
                                                      "Region", "...", construct))
                     ELSE ranges]

\* subroutine starts: a row whose leading number is a GOSUB target ends the
\* open subroutine on the row above and opens a new one
sub_start_step(st, trimmed, line_num, gosub_targets) ==
    LET basic_line == parse_u32(first_word(trimmed))
    IN  IF basic_line # None /\ basic_line \in gosub_targets
        THEN [st EXCEPT
                !.ranges = IF st.current_sub_start # None /\ line_num > st.current_sub_start + 1
                           THEN Append(@, FoldingRange(st.current_sub_start, line_num - 1,
                                                       "Region", "...", "sub"))
                           ELSE @,
                !.current_sub_start = line_num]
        ELSE st

return_step(st, trimmed, line_num) ==
    IF contains(trimmed, kRETURN) /\ ~contains(trimmed, kGOSUB) /\ st.current_sub_start # None
    THEN [st EXCEPT
            !.ranges = IF line_num > st.current_sub_start
                       THEN Append(@, FoldingRange(st.current_sub_start, line_num,
                                                   "Region", "...", "sub"))
                       ELSE @,
            !.current_sub_start = None]
    ELSE st

for_step(st, trimmed, line_num) ==
    LET opened == IF /\ contains_keyword(trimmed, wFOR)
                     /\ contains_keyword(trimmed, kTO)
                     /\ ~contains_keyword(trimmed, kNEXT)
                  THEN Append(st.for_stack, line_num) ELSE st.for_stack
        closed == close_construct(opened, line_num, "for", st.ranges)
    IN  IF contains_keyword(trimmed, kNEXT)
        THEN [st EXCEPT !.for_stack = closed.stack, !.ranges = closed.ranges]
        ELSE [st EXCEPT !.for_stack = opened]

while_step(st, trimmed, line_num) ==
    LET opened == IF contains_keyword(trimmed, kWHILE) /\ ~contains_keyword(trimmed, kWEND)
                  THEN Append(st.while_stack, line_num) ELSE st.while_stack
        closed == close_construct(opened, line_num, "while", st.ranges)
    IN  IF contains_keyword(trimmed, kWEND)
        THEN [st EXCEPT !.while_stack = closed.stack, !.ranges = closed.ranges]
        ELSE [st EXCEPT !.while_stack = opened]

do_step(st, trimmed, line_num) ==
    LET opened == IF contains_keyword(trimmed, kDO) /\ ~contains_keyword(trimmed, kLOOP)
                  THEN Append(st.do_stack, line_num) ELSE st.do_stack
        closed == close_construct(opened, line_num, "do", st.ranges)
    IN  IF contains_keyword(trimmed, kLOOP)
        THEN [st EXCEPT !.do_stack = closed.stack, !.ranges = closed.ranges]
        ELSE [st EXCEPT !.do_stack = opened]

select_step(st, trimmed, line_num) ==
    LET opened == IF contains_keyword(trimmed, kSELECT) /\ contains_keyword(trimmed, kCASE)
                  THEN Append(st.select_stack, line_num) ELSE st.select_stack
        closed == close_construct(opened, line_num, "select", st.ranges)
    IN  IF contains_keyword(trimmed, kEND) /\ contains_keyword(trimmed, kSELECT)
        THEN [st EXCEPT !.select_stack = closed.stack, !.ranges = closed.ranges]
        ELSE [st EXCEPT !.select_stack = opened]

\* a structured IF: nothing, or only a number, follows THEN on the row
is_if_opener(trimmed) ==
    LET then_pos == find(trimmed, kTHEN)
        after_then == trim(From(trimmed, then_pos + 4))
    IN  /\ contains_keyword(trimmed, wIF)
        /\ then_pos # None
        /\ (after_then = <<>> \/ parse_u32(after_then) # None)

if_step(st, trimmed, line_num) ==
    LET opened == IF is_if_opener(trimmed) THEN Append(st.if_stack, line_num) ELSE st.if_stack
        closed == close_construct(opened, line_num, "if", st.ranges)
    IN  IF contains_keyword(trimmed, kEND) /\ contains_keyword(trimmed, wIF)
        THEN [st EXCEPT !.if_stack = closed.stack, !.ranges = closed.ranges]
        ELSE [st EXCEPT !.if_stack = opened]

\* the last row of the run of rows after line_idx whose content (after the
\* line number) starts with one of prefixes; line_idx when the run is empty
run_end(lines, line_idx, prefixes) ==
    LET Continues(j) ==
            LET content == fold_skip_line_number(to_uppercase(trim(lines[j + 1])))
            IN  \E p \in prefixes : starts_with(content, p)
        ends == {e \in line_idx..(Len(lines) - 1) : \A j \in (line_idx + 1)..e : Continues(j)}
    IN  Max(ends)

\* mutant of block_range: a block of one row is folded too
block_range_single(ranges, line_num, end_line, kind, text, construct) ==
    Append(ranges, FoldingRange(line_num, end_line, kind, text, construct))

\* a comment or DATA block is folded when it spans more than its first row
block_range(ranges, line_num, end_line, kind, text, construct) ==
    IF end_line > line_num
    THEN Append(ranges, FoldingRange(line_num, end_line, kind, text, construct))
    ELSE ranges

comment_step(st, lines, trimmed, line_num) ==
    IF starts_with(trimmed, kREM) \/ starts_with(trimmed, <<"'">>)
    THEN [st EXCEPT !.ranges = block_range(@, line_num,
                                   run_end(lines, line_num, {kREM, <<"'">>}),
                                   "Comment", "REM...", "comment")]
    ELSE st

data_step(st, lines, trimmed, line_num) ==
    IF contains_keyword(trimmed, kDATA)
    THEN [st EXCEPT !.ranges = block_range(@, line_num, run_end(lines, line_num, {kDATA}),
                                   "Region", "DATA...", "data")]
    ELSE st

\* the body of the loop over the rows, for one non-empty row
fold_line(st, lines, trimmed, line_num, gosub_targets) ==
    LET s1 == sub_start_step(st, trimmed, line_num, gosub_targets)
        s2 == return_step(s1, trimmed, line_num)
        s3 == for_step(s2, trimmed, line_num)
        s4 == while_step(s3, trimmed, line_num)
        s5 == do_step(s4, trimmed, line_num)
        s6 == select_step(s5, trimmed, line_num)
        s7 == if_step(s6, trimmed, line_num)
        s8 == comment_step(s7, lines, trimmed, line_num)
    IN  data_step(s8, lines, trimmed, line_num)

RECURSIVE fold_lines(_, _, _, _)
fold_lines(lines, line_idx, gosub_targets, st) ==
    IF line_idx >= Len(lines) THEN st
    ELSE LET trimmed == trim(to_uppercase(lines[line_idx + 1]))
         IN  fold_lines(lines, line_idx + 1, gosub_targets,
                        IF trimmed = <<>> THEN st
                        ELSE fold_line(st, lines, trimmed, line_idx, gosub_targets))

NoStacks ==
    [for_stack |-> <<>>, while_stack |-> <<>>, do_stack |-> <<>>, select_stack |-> <<>>,
     if_stack |-> <<>>, current_sub_start |-> None, ranges |-> <<>>]

get_folding_ranges(source) ==
    fold_lines(source, 0, find_gosub_targets(source), NoStacks).ranges

-----------------------------------------------------------------------------
(* The state machine: the folding request. *)

MaxFoldRows == 4

rowFor ==                                                          \* 10 FOR I = 1 TO 10
    <<"1","0"," ","F","O","R"," ","I"," ","="," ","1"," ","T","O"," ","1","0">>
rowPrintI == <<"2","0"," ","P","R","I","N","T"," ","I">>             \* 20 PRINT I
rowNext == <<"3","0"," ","N","E","X","T"," ","I">>                  \* 30 NEXT I
rowDoWhile == <<"4","0"," ","D","O"," ","W","H","I","L","E"," ","X">>  \* 40 DO WHILE X
rowLoop == <<"5","0"," ","L","O","O","P">>                          \* 50 LOOP
rowWend == <<"6","0"," ","W","E","N","D">>                          \* 60 WEND
rowSelect ==                                                       \* 70 SELECT CASE X
    <<"7","0"," ","S","E","L","E","C","T"," ","C","A","S","E"," ","X">>
rowEndSelect == <<"8","0"," ","E","N","D"," ","S","E","L","E","C","T">>  \* 80 END SELECT
rowIfThen == <<"I","F"," ","X"," ","T","H","E","N">>                 \* IF X THEN
rowEndIf == <<"E","N","D"," ","I","F">>                             \* END IF
rowRemark == <<"R","E","M">>                                        \* REM
rowData == <<"9","0"," ","D","A","T","A"," ","1">>                   \* 90 DATA 1
rowReturn == <<"R","E","T","U","R","N">>                            \* RETURN
rowGosub == <<"2","0"," ","G","O","S","U","B"," ","1","0">>          \* 20 GOSUB 10

\* loops and SELECT: the constructs matched through a stack
LoopRows ==
    {rowFor, rowPrintI, rowNext, rowDoWhile, rowLoop, rowWend, rowSelect, rowEndSelect}

\* every kind of region: a loop, IF blocks, subroutines, comment and DATA runs
BlockRows ==
    {rowFor, rowNext, rowIfThen, rowEndIf, rowRemark, rowData, rowReturn, rowGosub}

EditLoops ==
    /\ Len(doc) < MaxFoldRows
    /\ \E row \in LoopRows : Edit(row)

EditBlocks ==
    /\ Len(doc) < MaxFoldRows
    /\ \E row \in BlockRows : Edit(row)

\* the folding request on the snapshot
Fold ==
    /\ op = "edit"
    /\ foldingRanges' = get_folding_ranges(doc)
    /\ op' = "fold"
    /\ UNCHANGED <<documents, writer, notifications, client,
                   doc, parsed, diagnostics, symbols, cursor, newName, edits, doc2, edits2,
                   response>>

NextFold == EditLoops \/ Fold

SpecFold == Init /\ [][NextFold]_vars

NextBlocks == EditBlocks \/ Fold

SpecBlocks == Init /\ [][NextBlocks]_vars

-----------------------------------------------------------------------------
(* Claims about folding (SpecBlocks, SpecFold). *)

Folded == op = "fold"

Regions == Range(foldingRanges)

Disjoint(a, b) == a.end_line < b.start_line \/ b.end_line < a.start_line

Within(a, b) == b.start_line <= a.start_line /\ a.end_line <= b.end_line

\* C9: every folding region ends on a later row than it starts, and two
\* regions of the same construct type are disjoint or one contains the other.
C9_RegionsNested ==
    Folded =>
        /\ \A a \in Regions : a.end_line > a.start_line
        /\ \A a \in Regions : \A b \in Regions :
               a.construct = b.construct => Disjoint(a, b) \/ Within(a, b) \/ Within(b, a)

\* regions of several construct types, among them two distinct regions of one
\* type that overlap (one inside the other)
C9_Witness ==
    /\ Folded
    /\ Cardinality({a.construct : a \in Regions}) >= 2
    /\ \E a \in Regions : \E b \in Regions :
           a # b /\ a.construct = b.construct /\ Within(a, b)

\* the opener test and the closer test of a construct, on an uppercased row
IsOpener(c, row) ==
    CASE c = "for" -> /\ contains_keyword(row, <<"F","O","R">>)
                      /\ contains_keyword(row, <<"T","O">>)
                      /\ ~contains_keyword(row, <<"N","E","X","T">>)
      [] c = "while" -> /\ contains_keyword(row, <<"W","H","I","L","E">>)
                        /\ ~contains_keyword(row, <<"W","E","N","D">>)
      [] c = "do" -> /\ contains_keyword(row, <<"D","O">>)
                     /\ ~contains_keyword(row, <<"L","O","O","P">>)
      [] c = "select" -> /\ contains_keyword(row, <<"S","E","L","E","C","T">>)
                         /\ contains_keyword(row, <<"C","A","S","E">>)

IsCloser(c, row) ==
    CASE c = "for" -> contains_keyword(row, <<"N","E","X","T">>)
      [] c = "while" -> contains_keyword(row, <<"W","E","N","D">>)
      [] c = "do" -> contains_keyword(row, <<"L","O","O","P">>)
      [] c = "select" -> /\ contains_keyword(row, <<"E","N","D">>)
                         /\ contains_keyword(row, <<"S","E","L","E","C","T">>)

\* the opener row that closer row k pairs with: the most recent opener that no
\* earlier closer is paired with; None when every opener is paired
RECURSIVE Partner(_, _, _)
Partner(openers, closers, k) ==
    LET paired == {Partner(openers, closers, j) : j \in {i \in closers : i < k}}
        open == {o \in openers : o <= k} \ paired
    IN  IF open = {} THEN None ELSE Max(open)

\* the (opener row, closer row) pairs with the opener above the closer
PairsAmong(openers, closers) ==
    {pr \in {<<Partner(openers, closers, k), k>> : k \in closers} :
         pr[1] # None /\ pr[1] < pr[2]}

PairedRegions(c) ==
    LET upper == [r \in DOMAIN doc |-> trim(to_uppercase(doc[r]))]
    IN  PairsAmong({r - 1 : r \in {q \in DOMAIN doc : IsOpener(c, upper[q])}},
                   {r - 1 : r \in {q \in DOMAIN doc : IsCloser(c, upper[q])}})

RegionsOf(c) == SelectSeq(foldingRanges, LAMBDA a : a.construct = c)

\* C10: for FOR/NEXT, WHILE/WEND, DO/LOOP and SELECT CASE/END SELECT a closer
\* row pairs with the most recent still-unpaired opener row and emits exactly
\* one region [opener, closer] when the opener is above it; unpaired closers
\* and openers emit nothing.  10 FOR I = 1 TO 10 / 20 PRINT I / 30 NEXT I
\* yields exactly one region, rows 0 to 2.
C10_ClosersPairWithOpeners ==
    Folded =>
        /\ \A c \in {"for", "while", "do", "select"} :
               LET pairs == PairedRegions(c)
                   regions == RegionsOf(c)
               IN  /\ {<<a.start_line, a.end_line>> : a \in Range(regions)} = pairs
                   /\ Len(regions) = Cardinality(pairs)
        /\ doc = <<rowFor, rowPrintI, rowNext>> =>
               /\ Len(foldingRanges) = 1
               /\ foldingRanges[1].start_line = 0
               /\ foldingRanges[1].end_line = 2

\* two loops of one kind, one inside the other, both folded
C10_Witness ==
    /\ Folded
    /\ \E a \in Regions : \E b \in Regions :
           /\ a.construct = b.construct
           /\ a.construct \in {"for", "while", "do", "select"}
           /\ b.start_line < a.start_line
           /\ a.end_line < b.end_line

-----------------------------------------------------------------------------
(* The state machine: folding of subroutines. *)

rowGosub100 == <<"1","0"," ","G","O","S","U","B"," ","1","0","0">>   \* 10 GOSUB 100
rowPrint1 == <<"1","0","0"," ","P","R","I","N","T"," ","1">>         \* 100 PRINT 1
rowReturn110 == <<"1","1","0"," ","R","E","T","U","R","N">>          \* 110 RETURN

SubRows == {rowGosub100, rowEnd, rowPrint1, rowReturn110, rowReturn}

EditSubs ==
    /\ Len(doc) < MaxFoldRows
    /\ \E row \in SubRows : Edit(row)

NextSubs == EditSubs \/ Fold

SpecSubs == Init /\ [][NextSubs]_vars

-----------------------------------------------------------------------------
(* Claims about subroutine, comment and DATA regions. *)

\* the numbers a row names after a GOSUB keyword (GOSUB n, ON x GOSUB n, m)
GosubNumbersOf(row) ==
    LET upper == to_uppercase(row)
        parts == split_str(upper, kGOSUB)
        after == {parse_u32(first_word(trim_start(parts[i]))) : i \in 2..Len(parts)}
        listed == IF Len(parts) >= 2
                  THEN LET items == split(parts[2], ",")
                       IN  {parse_u32(trim(items[i])) : i \in DOMAIN items}
                  ELSE {}
    IN  (after \cup listed) \ {None}

GosubNumbers == UNION {GosubNumbersOf(doc[r]) : r \in DOMAIN doc}

SubRegions == {a \in Regions : a.construct = "sub"}

\* C19: a subroutine region starts only on a row whose line number is the
\* target of a GOSUB, and 10 GOSUB 100 / 20 END / 100 PRINT 1 / 110 RETURN
\* yields exactly one subroutine region, rows 2 to 3.
C19_SubroutineRegions ==
    Folded =>
        /\ \A a \in SubRegions :
               leading_number(doc[a.start_line + 1]) \in GosubNumbers
        /\ doc = <<rowGosub100, rowEnd, rowPrint1, rowReturn110>> =>
               {<<a.start_line, a.end_line>> : a \in SubRegions} = {<<2, 3>>}

\* the rows a run is made of: REM/' rows for "comment", DATA rows for "data"
IsRunRow(c, row) ==
    LET content == fold_skip_line_number(trim(to_uppercase(row)))
    IN  IF c = "comment"
        THEN starts_with(content, kREM) \/ starts_with(content, <<"'">>)
        ELSE starts_with(content, kDATA)

\* the maximal runs of two or more consecutive rows of that sort, as
\* (first row, last row)
MaximalRuns(c) ==
    {run \in (0..(Len(doc) - 1)) \X (0..(Len(doc) - 1)) :
        /\ run[1] < run[2]
        /\ \A k \in run[1]..run[2] : IsRunRow(c, doc[k + 1])
        /\ run[1] = 0 \/ ~IsRunRow(c, doc[run[1]])
        /\ run[2] = Len(doc) - 1 \/ ~IsRunRow(c, doc[run[2] + 2])}

RunKind(c) == IF c = "comment" THEN "Comment" ELSE "Region"

\* C20: every maximal run of two or more consecutive REM/' rows yields exactly
\* one Comment-kind region spanning the run, and every maximal run of two or
\* more consecutive DATA rows exactly one Region-kind region spanning the run.
C20_RunsFoldOnce ==
    Folded =>
        \A c \in {"comment", "data"} :
            LET regions == RegionsOf(c)
            IN  /\ {<<a.start_line, a.end_line>> : a \in Range(regions)} = MaximalRuns(c)
                /\ Len(regions) = Cardinality(MaximalRuns(c))
                /\ \A a \in Range(regions) : a.kind = RunKind(c)

-----------------------------------------------------------------------------
(* definition.rs: goto-definition. *)

\* the keyword test of the grammar engine's lexer (basica::lexer::is_keyword),
\* on an uppercased word: membership in the keyword catalog
lexer_is_keyword(word) == word \in DiagKeywords

NoLocation == [status |-> "none"]

Location(l0, c0, l1, c1) ==
    [status |-> "location", line |-> l0, character |-> c0, end_line |-> l1, end_character |-> c1]

\* build_line_map(source).get(n): HashMap::insert keeps the last row that
\* carries the number
line_map_get(source, n) ==
    LET rows == {r \in DOMAIN source : leading_number(source[r]) = n}
    IN  IF rows = {} THEN None ELSE Max(rows) - 1

\* str::split(ch).next(): the text before the first ch
before_first(s, ch) ==
    LET hits == {i \in 1..Len(s) : s[i] = ch}
    IN  IF hits = {} THEN s ELSE SubSeq(s, 1, Min(hits) - 1)

\* the loop of find_var_in_list over the comma-separated parts
RECURSIVE find_var_in_parts(_, _, _)
find_var_in_parts(parts, var_name, pos) ==
    IF parts = <<>> THEN None
    ELSE IF trim(before_first(trim_start(parts[1]), "(")) = var_name
    THEN pos + (Len(parts[1]) - Len(trim_start(parts[1])))
    ELSE find_var_in_parts(Tail(parts), var_name, pos + Len(parts[1]) + 1)

find_var_in_list(list, var_name) == find_var_in_parts(split(list, ","), var_name, 0)

\* the first character of s, a space when s is empty
first_char_or_space(s) == IF s = <<>> THEN " " ELSE s[1]

\* find_assignment, second form: VAR followed by = or ( at a word start
RECURSIVE find_implicit_assignment(_, _, _)
find_implicit_assignment(line, var_name, search_start) ==
    LET pos == find(From(line, search_start), var_name)
        abs_pos == search_start + pos
        after == trim_start(From(line, abs_pos + Len(var_name)))
        next == first_char_or_space(after)
    IN  IF pos = None THEN None
        ELSE IF abs_pos > 0 /\ IsIdentByte(line[abs_pos])
        THEN find_implicit_assignment(line, var_name, abs_pos + 1)
        ELSE IF (next = "=" /\ ~starts_with(after, <<"=","=">>)) \/ next = "("
        THEN abs_pos
        ELSE find_implicit_assignment(line, var_name, abs_pos + 1)

\* find_assignment, first form: the name after LET, up to ( or =
let_names(after_let, var_name) ==
    trim(before_first(before_first(trim_start(after_let), "("), "=")) = var_name

find_assignment(line, var_name) ==
    LET let_pos == find(line, kLET)
    IN  IF let_pos # None /\ let_names(From(line, let_pos + 4), var_name)
        THEN let_pos + 4 + (Len(From(line, let_pos + 4)) - Len(trim_start(From(line, let_pos + 4))))
        ELSE find_implicit_assignment(line, var_name, 0)

\* the column of var_name in a DIM list of content, or None
dim_definition(content, var_name) ==
    LET dim_pos == find(content, kDIM)
        var_pos == find_var_in_list(From(content, dim_pos + 4), var_name)
    IN  IF dim_pos = None \/ var_pos = None THEN None ELSE dim_pos + 4 + var_pos

\* the column of var_name as the loop variable of a FOR in content, or None
for_definition(content, var_name) ==
    LET for_pos == find(content, kFOR)
        after_for == From(content, for_pos + 4)
        trimmed == trim_start(after_for)
    IN  IF /\ for_pos # None
           /\ starts_with(trimmed, var_name)
           /\ Len(trimmed) > Len(var_name)
           /\ trimmed[Len(var_name) + 1] \in {" ", "=", "("}
        THEN for_pos + 4 + (Len(after_for) - Len(trimmed))
        ELSE None

\* the part of the text after INPUT that lists the variables
input_vars_part(after_kw) ==
    LET semi_pos == find(after_kw, <<";">>)
    IN  IF semi_pos # None THEN From(after_kw, semi_pos + 1) ELSE after_kw

\* the column of var_name in the list of vars_part, the tail of content
list_definition(content, vars_part, var_name) ==
    LET var_pos == find_var_in_list(vars_part, var_name)
    IN  IF var_pos = None THEN None ELSE (Len(content) - Len(vars_part)) + var_pos

input_definition(content, var_name) ==
    LET kw_pos == find(content, kINPUT)
    IN  IF kw_pos = None THEN None
        ELSE list_definition(content, input_vars_part(From(content, kw_pos + 6)), var_name)

read_definition(content, var_name) ==
    LET kw_pos == find(content, kREAD)
    IN  IF kw_pos = None THEN None
        ELSE list_definition(content, From(content, kw_pos + 5), var_name)

\* the first of the candidates that is not None
first_some(candidates) ==
    LET hits == {i \in DOMAIN candidates : candidates[i] # None}
    IN  IF hits = {} THEN None ELSE candidates[Min(hits)]

\* the column, within content, where one row defines var_name: DIM, then the
\* assignment forms, then FOR, then INPUT, then READ
line_definition(content, var_name) ==
    first_some(<<dim_definition(content, var_name),
                 find_assignment(content, var_name),
                 for_definition(content, var_name),
                 input_definition(content, var_name),
                 read_definition(content, var_name)>>)

\* (row, column) of the first row that defines var_name, or <<>> for None
RECURSIVE find_variable_definition_from(_, _, _)

\* the row defines var_name at column pos of its content, or the search goes on
definition_or_next(source, var_name, line_idx, pos) ==
    IF pos # None
    THEN <<line_idx,
           (Len(source[line_idx + 1]) - Len(skip_line_number(source[line_idx + 1]))) + pos>>
    ELSE find_variable_definition_from(source, var_name, line_idx + 1)

find_variable_definition_from(source, var_name, line_idx) ==
    IF line_idx >= Len(source) THEN <<>>
    ELSE definition_or_next(source, var_name, line_idx,
             line_definition(skip_line_number(to_uppercase(source[line_idx + 1])), var_name))

find_variable_definition(source, var_name) ==
    find_variable_definition_from(source, var_name, 0)

kRESTORE == <<"R","E","S","T","O","R","E">>

\* the row mentions GOTO, GOSUB, RESTORE or THEN
mentions_jump(line_upper) ==
    \/ contains(line_upper, kGOTO)
    \/ contains(line_upper, kGOSUB)
    \/ contains(line_upper, kRESTORE)
    \/ contains(line_upper, kTHEN)

\* a numeric word: the row of the Jump-Target Map, at column 0
line_number_definition(source, line, target_line) ==
    LET source_line == line_map_get(source, target_line)
    IN  IF mentions_jump(to_uppercase(line)) /\ source_line # None
        THEN Location(source_line, 0, source_line, 0)
        ELSE NoLocation

\* a word that is no number: its first definition, unless it is a keyword
variable_definition(source, word, def) ==
    IF lexer_is_keyword(to_uppercase(word)) \/ def = <<>> THEN NoLocation
    ELSE Location(def[1], def[2], def[1], def[2] + Len(word))

word_definition(source, line, word) ==
    IF parse_u32(word) # None THEN line_number_definition(source, line, parse_u32(word))
    ELSE variable_definition(source, word, find_variable_definition(source, to_uppercase(word)))

find_definition(source, position) ==
    IF position.line >= Len(source) THEN NoLocation
    ELSE LET w == get_word_at_position(source[position.line + 1], position.character)
         IN  IF w.start = None THEN NoLocation
             ELSE word_definition(source, source[position.line + 1], w.word)

-----------------------------------------------------------------------------
(* references.rs: find-references. *)

\* the occurrences of var_name in one row: the while-let loop
RECURSIVE variable_references_line(_, _, _, _)
variable_references_line(upper, var_name, line_idx, search_start) ==
    LET pos == find(From(upper, search_start), var_name)
        abs_pos == search_start + pos
        before_ok == abs_pos = 0 \/ ~IsIdentByte(upper[abs_pos])
        after_pos == abs_pos + Len(var_name)
        after_ok ==
            \/ after_pos >= Len(upper)
            \/ /\ ~is_ascii_alphanumeric(upper[after_pos + 1])
               /\ upper[after_pos + 1] # "_"
        end_pos == IF after_pos < Len(upper) /\ upper[after_pos + 1] = "$"
                   THEN after_pos + 1 ELSE after_pos
        here == IF before_ok /\ after_ok
                THEN <<Location(line_idx, abs_pos, line_idx, end_pos)>>
                ELSE <<>>
    IN  IF pos = None THEN <<>>
        ELSE here \o variable_references_line(upper, var_name, line_idx, abs_pos + 1)

find_variable_references(source, var_name) ==
    Concat([r \in DOMAIN source |->
        variable_references_line(to_uppercase(source[r]), var_name, r - 1, 0)])

\* the row whose first word is the number itself
line_definition_reference(line, line_idx, target_str) ==
    IF first_word(trim_start(line)) = target_str
    THEN <<Location(line_idx, 0, line_idx, Len(target_str))>>
    ELSE <<>>

\* the jump references of one row that name the number
line_jump_references(line, line_idx, target_str) ==
    LET its == SelectSeq(jump_items(line, to_uppercase(line)),
                         LAMBDA it : it.item.num_str = target_str)
    IN  [i \in DOMAIN its |->
            Location(line_idx, undefined_line_start(its[i].abs_pos, its[i].item.num_part),
                     line_idx,
                     undefined_line_start(its[i].abs_pos, its[i].item.num_part)
                         + Len(target_str))]

find_line_references(source, target_line) ==
    Concat([r \in DOMAIN source |->
        line_definition_reference(source[r], r - 1, to_string(target_line))
        \o line_jump_references(source[r], r - 1, to_string(target_line))])

word_references(source, word) ==
    IF parse_u32(word) # None THEN find_line_references(source, parse_u32(word))
    ELSE find_variable_references(source, to_uppercase(word))

find_references(source, position) ==
    IF position.line >= Len(source) THEN <<>>
    ELSE LET w == get_word_at_position(source[position.line + 1], position.character)
         IN  IF w.start = None THEN <<>> ELSE word_references(source, w.word)

-----------------------------------------------------------------------------
(* rename.rs: prepare-rename. *)

prepare_rename(source, position) ==
    IF position.line >= Len(source) THEN NoLocation
    ELSE LET w == get_word_at_position(source[position.line + 1], position.character)
         IN  IF w.start = None THEN NoLocation
             ELSE IF parse_u32(w.word) # None THEN NoLocation
             ELSE IF rename_is_keyword(to_uppercase(w.word)) THEN NoLocation
             ELSE Location(position.line, w.start, position.line, w.end)

-----------------------------------------------------------------------------
(* hover.rs: hover. *)

\* the names get_documentation has a text for
HoverKeys ==
    {<<"I","F">>, <<"T","H","E","N">>, <<"E","L","S","E">>, <<"F","O","R">>,
     <<"T","O">>, <<"S","T","E","P">>, <<"N","E","X","T">>, <<"W","H","I","L","E">>,
     <<"W","E","N","D">>, <<"D","O">>, <<"L","O","O","P">>, <<"U","N","T","I","L">>,
     <<"E","X","I","T">>, <<"G","O","T","O">>, <<"G","O","S","U","B">>,
     <<"R","E","T","U","R","N">>, <<"O","N">>, <<"S","E","L","E","C","T">>,
     <<"C","A","S","E">>, <<"E","N","D">>, <<"S","T","O","P">>,
     <<"P","R","I","N","T">>, <<"L","P","R","I","N","T">>, <<"I","N","P","U","T">>,
     <<"L","I","N","E">>, <<"R","E","A","D">>, <<"D","A","T","A">>,
     <<"R","E","S","T","O","R","E">>, <<"L","E","T">>, <<"D","I","M">>,
     <<"S","W","A","P">>, <<"C","H","R">>, <<"A","S","C">>, <<"L","E","N">>,
     <<"L","E","F","T">>, <<"R","I","G","H","T">>, <<"M","I","D">>, <<"S","T","R">>,
     <<"V","A","L">>, <<"S","T","R","I","N","G">>, <<"S","P","A","C","E">>,
     <<"I","N","S","T","R">>, <<"U","C","A","S","E">>, <<"L","C","A","S","E">>,
     <<"L","T","R","I","M">>, <<"R","T","R","I","M">>, <<"H","E","X">>,
     <<"O","C","T">>, <<"A","B","S">>, <<"S","G","N">>, <<"I","N","T">>,
     <<"F","I","X">>, <<"C","I","N","T">>, <<"S","Q","R">>, <<"S","I","N">>,
     <<"C","O","S">>, <<"T","A","N">>, <<"A","T","N">>, <<"L","O","G">>,
     <<"E","X","P">>, <<"R","N","D">>, <<"R","A","N","D","O","M","I","Z","E">>,
     <<"I","N","K","E","Y">>, <<"T","A","B">>, <<"S","P","C">>,
     <<"T","I","M","E","R">>, <<"D","A","T","E">>, <<"T","I","M","E">>,
     <<"E","O","F">>, <<"P","E","E","K">>, <<"P","O","K","E">>,
     <<"P","O","I","N","T">>, <<"S","C","R","E","E","N">>, <<"C","O","L","O","R">>,
     <<"C","L","S">>, <<"L","O","C","A","T","E">>, <<"C","I","R","C","L","E">>,
     <<"P","A","I","N","T">>, <<"P","S","E","T">>, <<"P","R","E","S","E","T">>,
     <<"G","E","T">>, <<"P","U","T">>, <<"D","R","A","W">>, <<"P","L","A","Y">>,
     <<"S","O","U","N","D">>, <<"B","E","E","P">>, <<"W","I","D","T","H">>,
     <<"O","P","E","N">>, <<"C","L","O","S","E">>, <<"K","I","L","L">>,
     <<"N","A","M","E">>, <<"F","I","L","E","S">>, <<"M","K","D","I","R">>,
     <<"R","M","D","I","R">>, <<"C","H","D","I","R">>, <<"A","N","D">>, <<"O","R">>,
     <<"X","O","R">>, <<"N","O","T">>, <<"M","O","D">>, <<"E","R","R","O","R">>,
     <<"R","E","S","U","M","E">>, <<"R","E","M">>, <<"D","E","F">>, <<"F","N">>,
     <<"C","L","E","A","R">>, <<"C","H","A","I","N">>}

NoHover == [status |-> "none"]

\* the documentation of a word, named by its key in the table
get_documentation(keyword) ==
    IF trim_end_dollars(keyword) \in HoverKeys
    THEN [status |-> "hover", key |-> trim_end_dollars(keyword)]
    ELSE NoHover

get_hover(source, position) ==
    IF position.line >= Len(source) THEN NoHover
    ELSE LET w == get_word_at_position(source[position.line + 1], position.character)
         IN  IF w.start = None THEN NoHover
             ELSE get_documentation(to_uppercase(w.word))

-----------------------------------------------------------------------------
(* The state machine: the requests made at a cursor position. *)

MaxNavRows == 2

rowIfX ==                                                  \* 10 IF x = 1 THEN 20
    <<"1","0"," ","I","F"," ","x"," ","="," ","1"," ","T","H","E","N"," ","2","0">>
rowPrintX1 == <<"2","0"," ","P","R","I","N","T"," ","X","(","1",")">>   \* 20 PRINT X(1)
rowGoto10 == <<"1","0"," ","G","O","T","O"," ","1","0">>               \* 10 GOTO 10
rowDollar == <<"3","0"," ","P","R","I","N","T"," ","$">>               \* 30 PRINT $
rowLety == <<"5","0"," ","y"," ","="," ","1">>                         \* 50 y = 1
rowPrintY == <<"6","0"," ","P","R","I","N","T"," ","Y">>               \* 60 PRINT Y
rowDimZs == <<"7","0"," ","D","I","M"," ","Z","$","(","5",")">>        \* 70 DIM Z$(5)
rowPrintzs == <<"8","0"," ","P","R","I","N","T"," ","z","$","(","1",")">>   \* 80 PRINT z$(1)

\* jumps, duplicate line numbers, comparisons, array reads, a lone '$'
NavRows == {rowIfX, rowPrintX1, rowGoto10, rowDollar, rowLetB, rowEnd}

\* declarations and references of one variable in both letter cases
CaseRows == {rowLety, rowPrintY, rowDimZs, rowPrintzs}

EditNav ==
    /\ Len(doc) < MaxNavRows
    /\ \E row \in NavRows : Edit(row)

EditCase ==
    /\ Len(doc) < MaxNavRows
    /\ \E row \in CaseRows : Edit(row)

\* the positions a client may send: every column of every row and one past
\* its end, and the row after the last one
CursorPositions ==
    {[line |-> l, character |-> c] : l \in 0..Len(doc), c \in 0..20}

InRange(position) ==
    /\ position.line < Len(doc)
    /\ position.character <= Len(doc[position.line + 1])

\* the positions of a request: in range, or just out of range
Positions ==
    {p \in CursorPositions :
        IF p.line < Len(doc) THEN p.character <= Len(doc[p.line + 1]) + 1
        ELSE p.character <= 1}

\* a request that reads the snapshot and answers value
Request(name, position, value) ==
    /\ op' = name
    /\ cursor' = position
    /\ response' = [request |-> name, value |-> value]
    /\ UNCHANGED <<documents, writer, notifications, client,
                   doc, parsed, diagnostics, symbols, newName, edits, doc2, edits2,
                   foldingRanges>>

GotoDefinition ==
    /\ op = "edit"
    /\ \E p \in Positions : Request("definition", p, find_definition(doc, p))

References ==
    /\ op = "edit"
    /\ \E p \in Positions : Request("references", p, find_references(doc, p))

PrepareRename ==
    /\ op = "edit"
    /\ \E p \in Positions : Request("prepare-rename", p, prepare_rename(doc, p))

Hover ==
    /\ op = "edit"
    /\ \E p \in Positions : Request("hover", p, get_hover(doc, p))

\* the rename request at any position, in range or not
RenameAt ==
    /\ op = "edit"
    /\ \E p \in Positions : \E name \in NewNames :
        /\ op' = "rename-at"
        /\ cursor' = p
        /\ newName' = name
        /\ edits' = rename_symbol(doc, p, name)
        /\ response' = [request |-> "rename-at", value |-> rename_symbol(doc, p, name)]
        /\ UNCHANGED <<documents, writer, notifications, client,
                       doc, parsed, diagnostics, symbols, doc2, edits2, foldingRanges>>

NextNav == EditNav \/ GotoDefinition \/ References \/ PrepareRename \/ Hover \/ RenameAt

SpecNav == Init /\ [][NextNav]_vars

NextCase == EditCase \/ Check \/ GotoDefinition \/ References \/ RenameAt

SpecCase == Init /\ [][NextCase]_vars

-----------------------------------------------------------------------------
(* Claims about the requests made at a cursor position (SpecNav). *)

Asked(name) == op = name /\ response.request = name

\* the token under the cursor of the last request; start = None when the
\* cursor is on no token or on no row
CursorToken ==
    IF cursor.line < Len(doc)
    THEN get_word_at_position(doc[cursor.line + 1], cursor.character)
    ELSE [start |-> None, end |-> None, word |-> <<>>]

\* the last request ended in a fault: in rename_symbol the search slices
\* past the end of a row
Faulted == response.request = "rename-at" /\ response.value.status = "panic"

\* C11: no request ever faults, whatever the text, the position and the new
\* name: it answers a result or an empty result.
C11_NoRequestFaults ==
    \A name \in {"definition", "references", "prepare-rename", "hover", "rename-at"} :
        Asked(name) => ~Faulted

\* the rows that carry BASIC line number n
RowsNumbered(n) == {r \in 0..(Len(doc) - 1) : leading_number(doc[r + 1]) = n}

MentionsJump(row) ==
    \E kw \in {kGOTO, kGOSUB, kRESTORE, kTHEN} : contains(to_uppercase(row), kw)

\* C13: goto-definition on a numeric token of a row that mentions GOTO, GOSUB,
\* RESTORE or THEN answers the zero-width location at column 0 of the first
\* row that carries that line number, and none when no row carries it or the
\* row mentions none of these keywords.
C13_LineNumberDefinition ==
    (/\ Asked("definition")
     /\ InRange(cursor)
     /\ CursorToken.start # None
     /\ parse_u32(CursorToken.word) # None)
    => LET n == parse_u32(CursorToken.word)
       IN  IF MentionsJump(doc[cursor.line + 1]) /\ RowsNumbered(n) # {}
           THEN response.value = Location(Min(RowsNumbered(n)), 0, Min(RowsNumbered(n)), 0)
           ELSE response.value = NoLocation

\* the rows on which the Variable Symbol Index records a declaration of var
DeclarationRows(var) ==
    LET definitions == analyze_variables(doc).definitions
    IN  IF var \in DOMAIN definitions
        THEN {definitions[var][i].line : i \in DOMAIN definitions[var]}
        ELSE {}

\* C14: for a non-keyword variable token, goto-definition answers a location
\* exactly when the Variable Symbol Index of diagnostics records a declaration
\* of the variable, and the location is on the earliest declaring row.
C14_DefinitionAgreesWithIndex ==
    (/\ Asked("definition")
     /\ InRange(cursor)
     /\ IsIdentifier(CursorToken.word)
     /\ ~diag_is_keyword(to_uppercase(CursorToken.word))
     /\ ~lexer_is_keyword(to_uppercase(CursorToken.word)))
    => LET rows == DeclarationRows(to_uppercase(CursorToken.word))
       IN  /\ response.value.status = "location" <=> rows # {}
           /\ response.value.status = "location" => response.value.line = Min(rows)

\* C16: prepare-rename answers none on a numeric token and on a keyword, and
\* the span of the token otherwise; rename answers an edit set only where
\* prepare-rename answers a span, and a non-empty one wherever it does.
C16_PrepareRenameAgreesWithRename ==
    (Asked("prepare-rename") /\ InRange(cursor) /\ CursorToken.start # None)
    => /\ IF IsVariableToken(CursorToken.word)
          THEN response.value = Location(cursor.line, CursorToken.start,
                                         cursor.line, CursorToken.end)
          ELSE response.value = NoLocation
       /\ \A name \in NewNames :
              LET renamed == rename_symbol(doc, cursor, name)
              IN  /\ renamed.status = "edits" => response.value.status = "location"
                  /\ response.value.status = "location" =>
                         renamed.status = "edits" /\ renamed.edits # <<>>

\* the answer that stands for no result, per request
NoResult(name) ==
    CASE name = "definition" -> NoLocation
      [] name = "references" -> <<>>
      [] name = "prepare-rename" -> NoLocation
      [] name = "hover" -> NoHover
      [] name = "rename-at" -> NoEdits

\* C17: with the cursor out of range (its row after the last row, or its
\* column after the end of its row) goto-definition, find-references,
\* prepare-rename, rename and hover answer no result.
C17_OutOfRangeNoResult ==
    \A name \in {"definition", "references", "prepare-rename", "hover", "rename-at"} :
        (Asked(name) /\ ~InRange(cursor)) => response.value = NoResult(name)


-----------------------------------------------------------------------------
(* Claims about letter case (SpecCase). *)

\* the snapshot with every row in upper case: in the rows of CaseRows only
\* the identifiers change
UpperDoc == [r \in DOMAIN doc |-> to_uppercase(doc[r])]

\* where the variable named var (upper case) occurs in the snapshot, in any
\* letter case, as <<row, first column, column after its end>>
CaseOccurrences(var) ==
    {o \in (0..(Len(doc) - 1)) \X (0..20) \X (0..22) :
        /\ o[3] = o[2] + Len(var)
        /\ o[3] <= Len(doc[o[1] + 1])
        /\ Slice(to_uppercase(doc[o[1] + 1]), o[2], o[3]) = var}

\* the variables of CaseRows, and the variable the cursor is on
CaseVariables == {<<"Y">>, <<"Z", "$">>}

CursorVariable == to_uppercase(CursorToken.word)

OnCaseVariable ==
    /\ InRange(cursor)
    /\ CursorToken.start # None
    /\ CursorVariable \in CaseVariables

\* the occurrences a diagnostic, a location or an edit points at
SpanOf(x) == <<x.line, x.character, x.end_character>>

EditSpan(e) == <<e.line, e.start, e.end>>

Positions15(ds) == {<<d.kind, SpanOf(d)>> : d \in BagToSet(ds)}

\* the row that declares var: `50 y = 1` for Y, `70 DIM Z$(5)` for Z$
DeclaringRow(var) == IF var = <<"Y">> THEN rowLety ELSE rowDimZs

Declared(var) == DeclaringRow(var) \in Range(doc)

\* the row that reads var: `60 PRINT Y` for Y, `80 PRINT z$(1)` for Z$
ReferencingRow(var) == IF var = <<"Y">> THEN rowPrintY ELSE rowPrintzs

Referenced(var) == ReferencingRow(var) \in Range(doc)

FirstRowOf(row) == Min({r \in 0..(Len(doc) - 1) : doc[r + 1] = row})

-----------------------------------------------------------------------------
(* symbols.rs: the document outline. *)

kDEF_FN == <<"D","E","F"," ","F","N">>

\* find_gosub_targets of symbols.rs, the same code as the one of folding.rs
subroutine_lines(source) == find_gosub_targets(source)

DocumentSymbol(name, detail, kind, line, end_character) ==
    [name |-> name, detail |-> detail, kind |-> kind,
     line |-> line, character |-> 0, end_line |-> line, end_character |-> end_character]

\* a preview of at most max characters, "..." after a cut
preview(text, max) ==
    IF Len(text) > max THEN Slice(text, 0, max) \o <<".", ".", ".">> ELSE text

\* the function name of DEF FN: up to the first '(' and the first '='
fn_name(rest) == trim(split(split(From(rest, 6), "(")[1], "=")[1])

\* the first statement keyword: up to the first '(' and the first '='
first_keyword(rest) == split(split(to_uppercase(first_word(rest)), "(")[1], "=")[1]

\* the symbols of one row: one symbol, or none (continue)
line_symbols(line, line_idx, targets) ==
    LET trimmed == trim_start(line)
        fw == first_word(trimmed)
        line_num == parse_u32(fw)
        rest == trim_start(From(trimmed, Len(fw)))
        upper == to_uppercase(rest)
        number == to_string(line_num)
    IN  IF fw = <<>> \/ line_num = None THEN <<>>
        ELSE IF line_num \in targets
        THEN <<DocumentSymbol(number \o <<" ","(","S","U","B",")">>, "Subroutine",
                              "FUNCTION", line_idx, Len(line))>>
        ELSE IF starts_with(upper, kREM)
        THEN <<DocumentSymbol(number \o <<" ","R","E","M"," ">> \o preview(trim(From(rest, 3)), 30),
                              "Comment", "STRING", line_idx, Len(line))>>
        ELSE IF starts_with(upper, kDATA)
        THEN <<DocumentSymbol(number \o <<" ","D","A","T","A">>, "Data", "ARRAY",
                              line_idx, Len(line))>>
        ELSE IF starts_with(upper, kDEF_FN)
        THEN <<DocumentSymbol(number \o <<" ","D","E","F"," ","F","N">> \o fn_name(rest),
                              "User function", "FUNCTION", line_idx, Len(line))>>
        ELSE IF first_keyword(rest) \in {wFOR, kWHILE, kDO, kSELECT, wIF, kGOSUB, <<"O","N">>}
        THEN <<DocumentSymbol(number \o <<" ">> \o preview(rest, 40), "None", "KEY",
                              line_idx, Len(line))>>
        ELSE <<>>

get_document_symbols(source) ==
    Concat([r \in DOMAIN source |-> line_symbols(source[r], r - 1, subroutine_lines(source))])

-----------------------------------------------------------------------------
(* The state machine: the outline request. *)

MaxSymRows == 3

rowPrintXs == <<"1","0"," ","P","R","I","N","T"," ","X">>             \* 10 PRINT X
rowOnGosub ==                                              \* 30 ON X GOSUB 100,110
    <<"3","0"," ","O","N"," ","X"," ","G","O","S","U","B"," ","1","0","0",",","1","1","0">>
rowDefFn == <<"4","0"," ","D","E","F"," ","F","N","A","(","X",")","=","X">>  \* 40 DEF FNA(X)=X
rowRemHi == <<"1","0"," ","R","E","M"," ","h","i">>                   \* 10 REM hi

SymRows ==
    {rowPrintXs, rowGosub100, rowPrint1, rowReturn110, rowOnGosub, rowDefFn, rowRemHi,
     rowData, rowFor, rowRemark}

EditSyms ==
    /\ Len(doc) < MaxSymRows
    /\ \E row \in SymRows : Edit(row)

\* the document_symbol request
DocumentSymbols ==
    /\ op = "edit"
    /\ op' = "symbols"
    /\ response' = [request |-> "symbols", value |-> get_document_symbols(doc)]
    /\ UNCHANGED <<documents, writer, notifications, client,
                   doc, parsed, diagnostics, symbols, cursor, newName, edits, doc2, edits2,
                   foldingRanges>>

NextSyms == EditSyms \/ DocumentSymbols

SpecSyms == Init /\ [][NextSyms]_vars

-----------------------------------------------------------------------------
(* Claims about the outline (SpecSyms). *)

Outline == response.value

NumberedRows == {r \in 0..(Len(doc) - 1) : leading_number(doc[r + 1]) # None}

SymbolsOn(r) == {i \in DOMAIN Outline : Outline[i].line = r}

\* the statement of a numbered row, in upper case
StatementOf(r) ==
    LET trimmed == trim_start(doc[r + 1])
    IN  to_uppercase(trim_start(From(trimmed, Len(first_word(trimmed)))))

\* a row the outline lists for what it starts with
Outlined(r) ==
    \/ \E kw \in {kREM, <<"'">>, kDATA, kDEF_FN} : starts_with(StatementOf(r), kw)
    \/ first_word(StatementOf(r)) \in {wFOR, kWHILE, kDO, kSELECT, wIF, kGOSUB, <<"O","N">>}

IsSubroutineSymbol(r, sym) ==
    /\ sym.detail = "Subroutine"
    /\ sym.name = to_string(leading_number(doc[r + 1])) \o <<" ","(","S","U","B",")">>

\* C18: the outline holds at most one symbol per numbered row, in row order,
\* and none for the other rows; a numbered row is a Subroutine symbol
\* `<N> (SUB)` exactly when its line number is the target of a GOSUB or
\* ON ... GOSUB; a numbered row that is no target, no comment, no DATA, no
\* DEF FN and starts with none of FOR/WHILE/DO/SELECT/IF/GOSUB/ON has no symbol.
C18_OutlineSymbols ==
    Asked("symbols") =>
        /\ \A i, j \in DOMAIN Outline : i < j => Outline[i].line < Outline[j].line
        /\ \A i \in DOMAIN Outline : Outline[i].line \in NumberedRows
        /\ \A r \in NumberedRows :
            /\ (\E i \in SymbolsOn(r) : IsSubroutineSymbol(r, Outline[i]))
                   <=> leading_number(doc[r + 1]) \in GosubNumbers
            /\ (leading_number(doc[r + 1]) \notin GosubNumbers /\ ~Outlined(r))
                   => SymbolsOn(r) = {}


-----------------------------------------------------------------------------
(* semantic_tokens.rs: the token stream for highlighting. *)

TYPE_KEYWORD == 0
TYPE_FUNCTION == 1
TYPE_VARIABLE == 2
TYPE_STRING == 3
TYPE_NUMBER == 4
TYPE_COMMENT == 5
TYPE_OPERATOR == 6

SemanticKeywords ==
    {<<"R","E","M">>, <<"L","E","T">>, <<"D","I","M">>, <<"P","R","I","N","T">>,
     <<"L","P","R","I","N","T">>, <<"I","N","P","U","T">>, <<"L","I","N","E">>, <<"I","F">>,
     <<"T","H","E","N">>, <<"E","L","S","E">>, <<"E","L","S","E","I","F">>, <<"E","N","D">>,
     <<"E","N","D","I","F">>, <<"F","O","R">>, <<"T","O">>, <<"S","T","E","P">>,
     <<"N","E","X","T">>, <<"W","H","I","L","E">>, <<"W","E","N","D">>, <<"D","O">>,
     <<"L","O","O","P">>, <<"U","N","T","I","L">>, <<"E","X","I","T">>,
     <<"S","E","L","E","C","T">>, <<"C","A","S","E">>, <<"G","O","T","O">>,
     <<"G","O","S","U","B">>, <<"R","E","T","U","R","N">>, <<"O","N">>, <<"R","E","A","D">>,
     <<"D","A","T","A">>, <<"R","E","S","T","O","R","E">>, <<"D","E","F">>, <<"F","N">>,
     <<"O","P","E","N">>, <<"C","L","O","S","E">>, <<"G","E","T">>, <<"P","U","T">>,
     <<"W","R","I","T","E">>, <<"F","I","E","L","D">>, <<"L","S","E","T">>,
     <<"R","S","E","T">>, <<"A","S">>, <<"O","U","T","P","U","T">>,
     <<"A","P","P","E","N","D">>, <<"R","A","N","D","O","M">>, <<"B","I","N","A","R","Y">>,
     <<"S","C","R","E","E","N">>, <<"C","O","L","O","R">>, <<"C","L","S">>,
     <<"L","O","C","A","T","E">>, <<"W","I","D","T","H">>, <<"C","I","R","C","L","E">>,
     <<"P","A","I","N","T">>, <<"P","S","E","T">>, <<"P","R","E","S","E","T">>,
     <<"D","R","A","W">>, <<"P","L","A","Y">>, <<"S","O","U","N","D">>, <<"B","E","E","P">>,
     <<"S","W","A","P">>, <<"R","A","N","D","O","M","I","Z","E">>, <<"C","L","E","A","R">>,
     <<"S","T","O","P">>, <<"P","O","K","E">>, <<"P","E","E","K">>, <<"O","U","T">>,
     <<"I","N","P">>, <<"W","A","I","T">>, <<"A","N","D">>, <<"O","R">>, <<"X","O","R">>,
     <<"N","O","T">>, <<"M","O","D">>, <<"I","M","P">>, <<"E","Q","V">>,
     <<"K","I","L","L">>, <<"N","A","M","E">>, <<"M","K","D","I","R">>,
     <<"R","M","D","I","R">>, <<"C","H","D","I","R">>, <<"F","I","L","E","S">>,
     <<"C","A","L","L">>, <<"C","H","A","I","N">>, <<"C","O","M","M","O","N">>,
     <<"S","H","A","R","E","D">>, <<"S","T","A","T","I","C">>}

semantic_is_keyword(word) == word \in SemanticKeywords

SemanticFunctions ==
    {<<"C","H","R","$">>, <<"A","S","C">>, <<"L","E","N">>, <<"L","E","F","T","$">>,
     <<"R","I","G","H","T","$">>, <<"M","I","D","$">>, <<"S","T","R","$">>, <<"V","A","L">>,
     <<"S","T","R","I","N","G","$">>, <<"S","P","A","C","E","$">>, <<"I","N","S","T","R">>,
     <<"U","C","A","S","E","$">>, <<"L","C","A","S","E","$">>, <<"L","T","R","I","M","$">>,
     <<"R","T","R","I","M","$">>, <<"H","E","X","$">>, <<"O","C","T","$">>, <<"A","B","S">>,
     <<"S","G","N">>, <<"I","N","T">>, <<"F","I","X">>, <<"C","I","N","T">>,
     <<"S","Q","R">>, <<"S","I","N">>, <<"C","O","S">>, <<"T","A","N">>, <<"A","T","N">>,
     <<"L","O","G">>, <<"E","X","P">>, <<"R","N","D">>, <<"P","E","E","K">>,
     <<"T","I","M","E","R">>, <<"D","A","T","E","$">>, <<"T","I","M","E","$">>,
     <<"I","N","K","E","Y","$">>, <<"E","O","F">>, <<"C","S","R","L","I","N">>,
     <<"P","O","S">>, <<"P","O","I","N","T">>, <<"T","A","B">>, <<"S","P","C">>}

semantic_is_function(word) == word \in SemanticFunctions

is_operator(b) == b \in {"+", "-", "*", "/", "^", "=", "<", ">", "(", ")", ",", ";", ":"}

is_ascii_hexdigit(c) == is_ascii_digit(c) \/ c \in {"A", "B", "C", "D", "E", "F", "a", "b", "c", "d", "e", "f"}

\* one call of add_token: the absolute place, the length and the type
TokenCall(line, char_pos, length, token_type) ==
    [line |-> line, char_pos |-> char_pos, length |-> length, token_type |-> token_type]

\* where the string literal that starts at start ends: after the closing
\* quote, or at the end of the row
string_end(line, start) ==
    LET quotes == {q \in (start + 1)..(Len(line) - 1) : line[q + 1] = "\""}
    IN  IF quotes = {} THEN Len(line) ELSE Min(quotes) + 1

hex_end(line, start) ==
    LET stops == {q \in (start + 2)..(Len(line) - 1) : ~is_ascii_hexdigit(line[q + 1])}
    IN  IF stops = {} THEN Len(line) ELSE Min(stops)

\* the while loop over the digits, '.', 'E', 'e' and the signs of an exponent
RECURSIVE decimal_end(_, _, _)
decimal_end(line, start, pos) ==
    IF pos < Len(line)
       /\ (is_ascii_digit(line[pos + 1]) \/ line[pos + 1] \in {".", "E", "e", "-", "+"})
    THEN IF /\ line[pos + 1] \in {"-", "+"}
            /\ pos > start
            /\ line[pos] # "E"
            /\ line[pos] # "e"
         THEN pos
         ELSE decimal_end(line, start, pos + 1)
    ELSE pos

identifier_end(line, start) ==
    LET stops == {q \in start..(Len(line) - 1) :
                     ~(is_ascii_alphanumeric(line[q + 1]) \/ line[q + 1] \in {"_", "$"})}
    IN  IF stops = {} THEN Len(line) ELSE Min(stops)

word_type(word) ==
    IF semantic_is_keyword(word) THEN TYPE_KEYWORD
    ELSE IF semantic_is_function(word) THEN TYPE_FUNCTION
    ELSE TYPE_VARIABLE

\* one token from start to end, then the rest of the row
RECURSIVE tokenize_line(_, _, _, _)
token_then(line, upper, line_num, start, end, token_type) ==
    <<TokenCall(line_num, start, end - start, token_type)>>
        \o tokenize_line(line, upper, end, line_num)

\* tokenize_line: the calls of add_token it makes from pos on, in order
tokenize_line(line, upper, pos, line_num) ==
    IF pos >= Len(line) THEN <<>>
    ELSE LET b == line[pos + 1]
         IN  IF is_whitespace(b) THEN tokenize_line(line, upper, pos + 1, line_num)
             ELSE IF b = "\""
             THEN token_then(line, upper, line_num, pos, string_end(line, pos), TYPE_STRING)
             ELSE IF b = "&" /\ pos + 1 < Len(line) /\ line[pos + 2] = "H"
             THEN token_then(line, upper, line_num, pos, hex_end(line, pos), TYPE_NUMBER)
             ELSE IF is_ascii_digit(b)
             THEN token_then(line, upper, line_num, pos, decimal_end(line, pos, pos),
                             TYPE_NUMBER)
             ELSE IF is_ascii_alphabetic(b) \/ b = "_"
             THEN token_then(line, upper, line_num, pos, identifier_end(line, pos),
                             word_type(Slice(upper, pos, identifier_end(line, pos))))
             ELSE IF is_operator(b)
             THEN token_then(line, upper, line_num, pos, pos + 1, TYPE_OPERATOR)
             ELSE tokenize_line(line, upper, pos + 1, line_num)

\* the rest of a row from char_pos on: one comment token, or its tokens
rest_tokens(line, upper, char_pos, line_num) ==
    LET after_linenum == From(upper, char_pos)
        comment_start == char_pos + (Len(after_linenum) - Len(trim_start(after_linenum)))
    IN  IF \/ starts_with(trim_start(after_linenum), kREM)
           \/ starts_with(trim_start(after_linenum), <<"'">>)
        THEN <<TokenCall(line_num, comment_start, Len(line) - comment_start, TYPE_COMMENT)>>
        ELSE tokenize_line(line, upper, char_pos, line_num)

\* the calls of add_token one row gives rise to, the line number first
line_tokens(line, line_num) ==
    LET upper == to_uppercase(line)
        trimmed_start == Len(line) - Len(trim_start(line))
        fw == first_word(trim_start(line))
    IN  IF fw # <<>> /\ parse_u32(fw) # None
        THEN <<TokenCall(line_num, trimmed_start, Len(fw), TYPE_NUMBER)>>
                 \o rest_tokens(line, upper, trimmed_start + Len(fw), line_num)
        ELSE rest_tokens(line, upper, trimmed_start, line_num)

\* the tokens of the document in scan order, before they are encoded
scanned_tokens(source) ==
    Concat([r \in DOMAIN source |-> line_tokens(source[r], r - 1)])

\* the encoder's state: the stream so far and the place of the previous
\* token; panicked once a subtraction has overflowed in a checked build
NoTokens == [tokens |-> <<>>, prev_line |-> 0, prev_char |-> 0, panicked |-> FALSE]

\* a SemanticToken; wrapped marks a delta that is the difference of a smaller
\* and a larger u32 in an unchecked build: the field then holds the negative
\* difference d for the u32 value 2^32 + d
SemanticToken(delta_line, delta_start, length, token_type, wrapped) ==
    [delta_line |-> delta_line, delta_start |-> delta_start, length |-> length,
     token_type |-> token_type, token_modifiers_bitset |-> 0, wrapped |-> wrapped]

\* every delta relative to the previous token, whatever the row
add_token_relative(st, call, overflow_checks) ==
    LET delta_line == call.line - st.prev_line
        delta_start == call.char_pos - st.prev_char
        underflow == delta_line < 0 \/ delta_start < 0
    IN  IF st.panicked THEN st
        ELSE IF underflow /\ overflow_checks THEN [st EXCEPT !.panicked = TRUE]
        ELSE [tokens |-> Append(st.tokens,
                                SemanticToken(delta_line, delta_start, call.length,
                                              call.token_type, underflow)),
              prev_line |-> call.line, prev_char |-> call.char_pos, panicked |-> FALSE]

\* add_token: u32 subtraction panics on underflow when the build checks
\* overflow and wraps when it does not
add_token(st, call, overflow_checks) ==
    LET delta_line == call.line - st.prev_line
        delta_start == IF delta_line = 0 THEN call.char_pos - st.prev_char
                       ELSE call.char_pos
        underflow == delta_line < 0 \/ delta_start < 0
    IN  IF st.panicked THEN st
        ELSE IF underflow /\ overflow_checks THEN [st EXCEPT !.panicked = TRUE]
        ELSE [tokens |-> Append(st.tokens,
                                SemanticToken(delta_line, delta_start, call.length,
                                              call.token_type, underflow)),
              prev_line |-> call.line, prev_char |-> call.char_pos, panicked |-> FALSE]

RECURSIVE encode_tokens(_, _, _)
encode_tokens(calls, st, overflow_checks) ==
    IF calls = <<>> THEN st
    ELSE encode_tokens(Tail(calls), add_token(st, Head(calls), overflow_checks),
                       overflow_checks)

\* get_semantic_tokens(source): "tokens" with the stream, or "panic"
get_semantic_tokens(source, overflow_checks) ==
    LET st == encode_tokens(scanned_tokens(source), NoTokens, overflow_checks)
    IN  IF st.panicked THEN [status |-> "panic", data |-> <<>>]
        ELSE [status |-> "tokens", data |-> st.tokens]

-----------------------------------------------------------------------------
(* The state machine: the semantic tokens request. *)

MaxTokenRows == 3

rowIndented ==                                                   \*   10 PRINT "A";X$
    <<" "," ","1","0"," ","P","R","I","N","T"," ","\"","A","\"",";","X","$">>
rowHex ==                                                    \* 30 X = &HFF + 1E+5-2
    <<"3","0"," ","X"," ","="," ","&","H","F","F"," ","+"," ","1","E","+","5","-","2">>
rowNote == <<" ","'"," ","n","o","t","e">>                              \*  ' note
rowLen == <<" "," ","L","E","N","(","A","$",")">>                       \*   LEN(A$)
rowOpenString ==                                                     \* 40 PRINT "open
    <<"4","0"," ","P","R","I","N","T"," ","\"","o","p","e","n">>
rowNumberOnly == <<"5","0">>                                            \* 50
rowEmpty == <<>>

TokenRows ==
    {rowIndented, rowHex, rowNote, rowLen, rowOpenString, rowNumberOnly, rowEmpty, rowRemHi}

EditTokens ==
    /\ Len(doc) < MaxTokenRows
    /\ \E row \in TokenRows : Edit(row)

\* the semantic_tokens_full request, in a build with or without overflow checks
SemanticTokensFull ==
    /\ op = "edit"
    /\ op' = "semantic-tokens"
    /\ \E overflow_checks \in BOOLEAN :
           response' = [request |-> "semantic-tokens",
                        value |-> get_semantic_tokens(doc, overflow_checks)]
    /\ UNCHANGED <<documents, writer, notifications, client,
                   doc, parsed, diagnostics, symbols, cursor, newName, edits, doc2, edits2,
                   foldingRanges>>

NextTokens == EditTokens \/ SemanticTokensFull

SpecTokens == Init /\ [][NextTokens]_vars

-----------------------------------------------------------------------------
(* Claims about the semantic tokens (SpecTokens). *)

\* the client's decoding of the stream from (row, column): row += delta_line,
\* column = delta_start on a new row and column + delta_start on the same row
RECURSIVE Decode(_, _, _)
Decode(data, row, column) ==
    IF data = <<>> THEN <<>>
    ELSE LET t == Head(data)
             r == row + t.delta_line
             c == IF t.delta_line > 0 THEN t.delta_start ELSE column + t.delta_start
         IN  <<<<r, c>>>> \o Decode(Tail(data), r, c)

Decoded == Decode(response.value.data, 0, 0)

Scanned == scanned_tokens(doc)

Before(p, q) == p[1] < q[1] \/ (p[1] = q[1] /\ p[2] < q[2])

\* the stream data decodes to the places of the scanned tokens, each a
\* non-empty stretch of its row, in strictly increasing order
DecodesTo(data, decoded, scanned) ==
    /\ decoded = [i \in DOMAIN scanned |-> <<scanned[i].line, scanned[i].char_pos>>]
    /\ \A i \in DOMAIN decoded :
           /\ data[i].length > 0
           /\ decoded[i][1] < Len(doc)
           /\ decoded[i][2] + data[i].length <= Len(doc[decoded[i][1] + 1])
           /\ ~is_whitespace(doc[decoded[i][1] + 1][decoded[i][2] + 1])
    /\ \A i, j \in DOMAIN decoded : i < j => Before(decoded[i], decoded[j])

\* C12: the stream decodes to the absolute (row, start column) of every
\* scanned token, each a non-empty stretch of its row; the decoded places
\* are strictly increasing, and no delta is the difference of a smaller and
\* a larger unsigned value.
C12_DeltaEncoding ==
    Asked("semantic-tokens") =>
        /\ response.value.status = "tokens"
        /\ \A i \in DOMAIN response.value.data : ~response.value.data[i].wrapped
        /\ DecodesTo(response.value.data, Decoded, Scanned)

\* a stream with several tokens on one row, tokens on a later row that start
\* left of the previous token, and a row without tokens in between
C12_Witness ==
    /\ Asked("semantic-tokens")
    /\ \E i \in DOMAIN Decoded : i > 1 /\ Decoded[i][1] = Decoded[i - 1][1]
    /\ \E i \in DOMAIN Decoded : i > 1 /\ Decoded[i][1] > Decoded[i - 1][1] + 1
                                       /\ Decoded[i][2] < Decoded[i - 1][2]

-----------------------------------------------------------------------------
(* The state machine: checking documents that end in unreachable rows. *)

MaxReachRows == 3

rowLetX5 == <<"1","0"," ","L","E","T"," ","X"," ","="," ","5">>        \* 10 LET X = 5
rowPrintX20 == <<"2","0"," ","P","R","I","N","T"," ","X">>             \* 20 PRINT X
rowGoto30 == <<"3","0"," ","G","O","T","O"," ","1","0">>               \* 30 GOTO 10
rowStop == <<"4","0"," ","S","T","O","P">>                             \* 40 STOP
rowPrint50 == <<"5","0"," ","P","R","I","N","T"," ","1">>              \* 50 PRINT 1

ReachRows == {rowLetX5, rowPrintX20, rowGoto30, rowStop, rowPrint50, rowEnd, rowReturn}

EditReach ==
    /\ Len(doc) < MaxReachRows
    /\ \E row \in ReachRows : Edit(row)

NextReach == EditReach \/ Check

SpecReach == Init /\ [][NextReach]_vars

-----------------------------------------------------------------------------
(* Claims about regions left open at the end of the document (SpecReach). *)

\* the terminator rows after which no row is a jump target
OpenTerminators ==
    {t \in 0..(Len(doc) - 1) :
        /\ IsTerminatorRow(doc[t + 1])
        /\ \A r \in (t + 1)..(Len(doc) - 1) : ~IsJumpTargetRow(doc[r + 1])}

\* C21: an unreachable region still open at the end of the document is not
\* reported: when no row after a terminator row is a jump target, no
\* unreachable-code Hint reaches past the terminator; a terminator on the
\* last row yields no hint for it, and 10 LET X = 5 / 20 PRINT X / 30 GOTO 10
\* yields no diagnostics at all.
C21_OpenRegionNotReported ==
    Accepted =>
        /\ \A t \in OpenTerminators :
               \A d \in DiagnosticsOfKind("unreachable") : d.end_line < t
        /\ doc = <<rowLetX5, rowPrintX20, rowGoto30>> => diagnostics = EmptyBag

\* an accepted document with rows after a terminator and no jump target
\* among them
C21_Witness ==
    /\ Accepted
    /\ \E t \in OpenTerminators : t + 1 < Len(doc)

-----------------------------------------------------------------------------
(* The state machine: rename on rows with '$' runs, repeated names and a
   character whose upper case is longer than itself. *)

MaxEditRows == 2

rowDollars == <<" ","$","A","$","A">>                                  \*  $A$A
rowAss == <<"A","$","$"," ","="," ","A","$">>                          \* A$$ = A$
rowAA == <<"5"," ","A","A"," ","="," ","A">>                           \* 5 AA = A
rowWide == <<"C5","89"," ","A">>                                       \* U+0149, then " A"

EditRows == {rowDollars, rowAss, rowAA, rowWide, rowIncA}

EditEdits ==
    /\ Len(doc) < MaxEditRows
    /\ \E row \in EditRows : Edit(row)

NextEdits == EditEdits \/ RenameAt

SpecEdits == Init /\ [][NextEdits]_vars

-----------------------------------------------------------------------------
(* Claims about the edit set of rename (SpecEdits). *)

EditSetReturned == op = "rename-at" /\ edits.status = "edits"

WithinRow(e) ==
    /\ e.line < Len(doc)
    /\ 0 <= e.start
    /\ e.start < e.end
    /\ e.end <= Len(doc[e.line + 1])

Apart(e, f) == e.line # f.line \/ e.end <= f.start \/ f.end <= e.start

EditsWellFormed(es) ==
    /\ \A i \in DOMAIN es : WithinRow(es[i])
    /\ \A i, j \in DOMAIN es : i # j => Apart(es[i], es[j])

\* C30: every edit of an edit set returned by rename lies within one row and
\* within that row's length, has start < end, and overlaps no other edit of
\* the set.
C30_EditsWithinRows == EditSetReturned => EditsWellFormed(edits.edits)

-----------------------------------------------------------------------------
(* The state machine: find-references on documents that hold a numeric and a
   string variable of one name. *)

MaxRefRows == 2

EditRefs ==
    /\ Len(doc) < MaxRefRows
    /\ \E row \in RenameRows : Edit(row)

NextRefs == EditRefs \/ References

SpecRefs == Init /\ [][NextRefs]_vars

-----------------------------------------------------------------------------
(* Claims about find-references on variables (SpecRefs). *)

\* the request was made on a variable token
OnVariableToken ==
    /\ InRange(cursor)
    /\ CursorToken.start # None
    /\ IsVariableToken(CursorToken.word)

\* the locations find-references answers for the token that starts at q
ReferencesAt(q) == Range(find_references(doc, q))

\* locs holds the occurrence that starts at row l, column c
Holds(locs, l, c) == \E loc \in locs : loc.line = l /\ loc.character = c

\* the answer locs for the token at p is reflexive and symmetric
ReflexiveSymmetric(locs, l, c) ==
    /\ Holds(locs, l, c)
    /\ \A loc \in locs :
           Holds(ReferencesAt([line |-> loc.line, character |-> loc.character]), l, c)

\* C29: find-references on a variable token at p holds the occurrence at p,
\* and the answer for every occurrence q it holds in turn holds the
\* occurrence at p, a variable A and a string variable A$ included.
C29_ReferencesSymmetric ==
    (Asked("references") /\ OnVariableToken)
    => ReflexiveSymmetric(Range(response.value), cursor.line, CursorToken.start)

-----------------------------------------------------------------------------
(* The state machine: folding documents with single-line IF rows. *)

MaxIfRows == 3

rowIfThen100 ==                                                    \* 50 IF C THEN 100
    <<"5","0"," ","I","F"," ","C"," ","T","H","E","N"," ","1","0","0">>
rowIfThenEnd ==                                                    \* 60 IF C THEN END
    <<"6","0"," ","I","F"," ","C"," ","T","H","E","N"," ","E","N","D">>

IfRows == {rowIfThen, rowEndIf, rowIfThen100, rowIfThenEnd, rowPrintI}

EditIfs ==
    /\ Len(doc) < MaxIfRows
    /\ \E row \in IfRows : Edit(row)

NextIfs == EditIfs \/ Fold

SpecIfs == Init /\ [][NextIfs]_vars

-----------------------------------------------------------------------------
(* Claims about IF regions (SpecIfs). *)

IfRegions == {a \in Regions : a.construct = "if"}

\* an IF row with nothing but whitespace after THEN
IsBlockIf(row) ==
    LET upper == to_uppercase(row)
        then_pos == find(upper, <<"T","H","E","N">>)
    IN  /\ contains_keyword(upper, <<"I","F">>)
        /\ then_pos # None
        /\ trim(From(upper, then_pos + 4)) = <<>>

IsEndIf(row) == contains(to_uppercase(row), <<"E","N","D"," ","I","F">>)

\* C26: an IF region starts only on an IF row with nothing but whitespace
\* after THEN and ends only on a row that contains END IF; a single-line IF
\* (IF c THEN 100, IF c THEN END) is neither the start nor the end of a
\* region.
C26_SingleLineIfNotFolded ==
    Folded =>
        \A a \in IfRegions :
            /\ IsBlockIf(doc[a.start_line + 1])
            /\ IsEndIf(doc[a.end_line + 1])

-----------------------------------------------------------------------------
(* The state machine: one row that prints one word of a catalog, and the
   operations that classify the word. *)

MaxWordRows == 1

\* every word of a keyword or function catalog, and two variables
CatalogWords ==
    DiagKeywords \cup RenameKeywords \cup SemanticKeywords \cup DiagFunctions
        \cup SemanticFunctions \cup {<<"X">>, <<"A", "$">>}

WordColumn == Len(kPRINT) + 4

\* the row 10 PRINT <word>
rowPrintWord(word) == <<"1", "0", " ">> \o kPRINT \o <<" ">> \o word

EditWord ==
    /\ Len(doc) < MaxWordRows
    /\ \E word \in CatalogWords : Edit(rowPrintWord(word))

NextCatalog == EditWord \/ Check \/ PrepareRename \/ SemanticTokensFull

SpecCatalog == Init /\ [][NextCatalog]_vars

-----------------------------------------------------------------------------
(* Claims about the catalogs (SpecCatalog). *)

PrintedWord == From(doc[1], WordColumn)

\* diagnostics records the word as a variable, declared or used
ReportedAsVariable(word) ==
    word \in (DOMAIN analyze_variables(doc).usages) \cup (DOMAIN analyze_variables(doc).definitions)

\* the semantic token that starts at the word has the Variable type
HighlightedAsVariable(calls) ==
    \E i \in DOMAIN calls :
        calls[i].char_pos = WordColumn /\ calls[i].token_type = TYPE_VARIABLE

\* the catalogs agree on word, and a word diagnostics does not take for a
\* variable is neither renameable nor a Variable token
CatalogsAgree(word) ==
    /\ diag_is_keyword(word) = rename_is_keyword(word)
    /\ diag_is_keyword(word) = semantic_is_keyword(word)
    /\ is_function(word) = semantic_is_function(word)
    /\ (Asked("prepare-rename") /\ cursor.line = 0 /\ cursor.character = WordColumn
            /\ response.value.status = "location") => ReportedAsVariable(word)
    /\ (Asked("semantic-tokens") /\ HighlightedAsVariable(scanned_tokens(doc)))
           => ReportedAsVariable(word)

\* C27: diagnostics, rename/prepare-rename and semantic tokens agree on
\* whether an uppercase word is a keyword, diagnostics and semantic tokens
\* agree on whether it is a built-in function, and a word that diagnostics
\* never reports as a variable is neither renameable nor highlighted as a
\* Variable token.
C27_OneCatalog == doc # <<>> => CatalogsAgree(PrintedWord)

-----------------------------------------------------------------------------
(* completion.rs: completion. *)

\* the names of the KEYWORDS table, in its order
KEYWORDS ==
    <<<<"I","F">>, <<"T","H","E","N">>, <<"E","L","S","E">>, <<"F","O","R">>, <<"T","O">>,
     <<"S","T","E","P">>, <<"N","E","X","T">>, <<"W","H","I","L","E">>, <<"W","E","N","D">>,
     <<"D","O">>, <<"L","O","O","P">>, <<"U","N","T","I","L">>, <<"E","X","I","T">>,
     <<"G","O","T","O">>, <<"G","O","S","U","B">>, <<"R","E","T","U","R","N">>, <<"O","N">>,
     <<"S","E","L","E","C","T">>, <<"C","A","S","E">>, <<"E","N","D">>, <<"S","T","O","P">>,
     <<"L","E","T">>, <<"D","I","M">>, <<"P","R","I","N","T">>, <<"L","P","R","I","N","T">>,
     <<"I","N","P","U","T">>, <<"L","I","N","E">>, <<"R","E","A","D">>, <<"D","A","T","A">>,
     <<"R","E","S","T","O","R","E">>, <<"R","E","M">>, <<"O","P","E","N">>,
     <<"C","L","O","S","E">>, <<"K","I","L","L">>, <<"N","A","M","E">>,
     <<"M","K","D","I","R">>, <<"R","M","D","I","R">>, <<"C","H","D","I","R">>,
     <<"F","I","L","E","S">>, <<"S","C","R","E","E","N">>, <<"C","O","L","O","R">>,
     <<"C","L","S">>, <<"L","O","C","A","T","E">>, <<"W","I","D","T","H">>,
     <<"C","I","R","C","L","E">>, <<"L","I","N","E">>, <<"P","A","I","N","T">>,
     <<"P","S","E","T">>, <<"P","R","E","S","E","T">>, <<"D","R","A","W">>, <<"G","E","T">>,
     <<"P","U","T">>, <<"P","L","A","Y">>, <<"S","O","U","N","D">>, <<"B","E","E","P">>,
     <<"D","E","F">>, <<"S","W","A","P">>, <<"R","A","N","D","O","M","I","Z","E">>,
     <<"C","L","E","A","R">>, <<"P","O","K","E">>, <<"A","N","D">>, <<"O","R">>,
     <<"X","O","R">>, <<"N","O","T">>, <<"M","O","D">>>>

\* the names of the FUNCTIONS table, in its order
FUNCTIONS ==
    <<<<"C","H","R","$">>, <<"A","S","C">>, <<"L","E","N">>, <<"L","E","F","T","$">>,
     <<"R","I","G","H","T","$">>, <<"M","I","D","$">>, <<"S","T","R","$">>, <<"V","A","L">>,
     <<"S","T","R","I","N","G","$">>, <<"S","P","A","C","E","$">>, <<"I","N","S","T","R">>,
     <<"U","C","A","S","E","$">>, <<"L","C","A","S","E","$">>, <<"L","T","R","I","M","$">>,
     <<"R","T","R","I","M","$">>, <<"H","E","X","$">>, <<"O","C","T","$">>, <<"A","B","S">>,
     <<"S","G","N">>, <<"I","N","T">>, <<"F","I","X">>, <<"C","I","N","T">>,
     <<"S","Q","R">>, <<"S","I","N">>, <<"C","O","S">>, <<"T","A","N">>, <<"A","T","N">>,
     <<"L","O","G">>, <<"E","X","P">>, <<"R","N","D">>, <<"P","E","E","K">>,
     <<"T","I","M","E","R">>, <<"D","A","T","E","$">>, <<"T","I","M","E","$">>,
     <<"I","N","K","E","Y","$">>, <<"E","O","F">>, <<"C","S","R","L","I","N">>,
     <<"P","O","S">>, <<"P","O","I","N","T">>, <<"T","A","B">>, <<"S","P","C">>,
     <<"F","N">>>>

\* skip_line_number of completion.rs, the same code as the one of diagnostics.rs
completion_skip_line_number(line) == skip_line_number(line)

\* extract_var_name: a letter, then letters, digits and '_', then one
\* optional '$'; the empty string stands for None
extract_var_name(s0) ==
    LET s == trim(s0)
        stops == {i \in 1..(Len(s) - 1) : ~(is_ascii_alphanumeric(s[i + 1]) \/ s[i + 1] = "_")}
        rest_end == IF stops = {} THEN Len(s) ELSE Min(stops)
        end == IF rest_end < Len(s) /\ s[rest_end + 1] = "$" THEN rest_end + 1 ELSE rest_end
    IN  IF s = <<>> THEN <<>>
        ELSE IF ~is_ascii_alphabetic(s[1]) THEN <<>>
        ELSE Slice(s, 0, end)

\* the names extract_var_name finds in the items of a list
list_vars(items) == {extract_var_name(trim(items[i])) : i \in DOMAIN items} \ {<<>>}

\* LET VAR = ..., or else VAR = ... outside IF with no space before the '='
assigned_vars(part) ==
    LET eq_pos == find(part, <<"=">>)
        before_eq == trim(Slice(part, 0, eq_pos))
    IN  IF starts_with(part, kLET) THEN list_vars(<<From(part, 4)>>)
        ELSE IF eq_pos # None /\ ~starts_with(part, kIF) /\ ~contains(before_eq, <<" ">>)
        THEN list_vars(<<before_eq>>)
        ELSE {}

\* the names one sub-statement adds to the set
part_vars(part) ==
    assigned_vars(part)
    \cup (IF starts_with(part, kDIM) THEN list_vars(split(From(part, 4), ",")) ELSE {})
    \cup (IF starts_with(part, kFOR) THEN list_vars(<<From(part, 4)>>) ELSE {})
    \cup (IF starts_with(part, kINPUT)
          THEN list_vars(split(input_vars_part(From(part, 6)), ",")) ELSE {})
    \cup (IF starts_with(part, kREAD) THEN list_vars(split(From(part, 5), ",")) ELSE {})

line_vars(line) ==
    LET parts == split(completion_skip_line_number(to_uppercase(line)), ":")
    IN  UNION {part_vars(trim(parts[i])) : i \in DOMAIN parts}

\* extract_variables: the HashSet of names, in no order
extract_variables(source) == UNION {line_vars(source[r]) : r \in DOMAIN source}

\* a CompletionItem: label and kind (the table's description is its detail)
CompletionItem(label, kind) == [label |-> label, kind |-> kind]

variable_kind(var) ==
    IF ends_with(var, <<"$">>) THEN "VARIABLE"
    ELSE IF contains(var, <<"(">>) THEN "FIELD"
    ELSE "VARIABLE"

\* get_completions(source, _position): the keyword items, the function
\* items, then the variable items in the order of the HashSet (a set here)
get_completions(source, position) ==
    [keywords |-> [i \in DOMAIN KEYWORDS |-> CompletionItem(KEYWORDS[i], "KEYWORD")],
     functions |-> [i \in DOMAIN FUNCTIONS |-> CompletionItem(FUNCTIONS[i], "FUNCTION")],
     variables |-> {CompletionItem(var, variable_kind(var)) : var \in extract_variables(source)}]

-----------------------------------------------------------------------------
(* The state machine: the completion request. *)

MaxCompletionRows == 2

rowDimAB ==                                                      \* 20 DIM A(10), B$(5)
    <<"2","0"," ","D","I","M"," ","A","(","1","0",")",","," ","B","$","(","5",")">>
rowForI3 ==                                                         \* 30 FOR I = 1 TO 3
    <<"3","0"," ","F","O","R"," ","I"," ","="," ","1"," ","T","O"," ","3">>
rowInputN == <<"4","0"," ","I","N","P","U","T"," ","\"","N","\"",";"," ","N">>  \* 40 INPUT "N"; N
rowReadR == <<"5","0"," ","R","E","A","D"," ","R">>                    \* 50 READ R
rowyIf ==                                                  \* 60 y = 2: IF y = 3 THEN 60
    <<"6","0"," ","y"," ","="," ","2",":"," ","I","F"," ","y"," ","="," ","3"," ","T","H","E","N"," ","6","0">>
rowPrinter == <<"7","0"," ","P","R","I","N","T","E","R"," ","="," ","5">>  \* 70 PRINTER = 5

CompletionRows ==
    {rowLetX5, rowDimAB, rowForI3, rowInputN, rowReadR, rowyIf, rowPrinter, rowPrintX20}

EditCompletion ==
    /\ Len(doc) < MaxCompletionRows
    /\ \E row \in CompletionRows : Edit(row)

\* the completion request at any position
Completion ==
    /\ op = "edit"
    /\ \E p \in Positions : Request("completion", p, get_completions(doc, p))

NextCompletion == EditCompletion \/ Completion

SpecCompletion == Init /\ [][NextCompletion]_vars

-----------------------------------------------------------------------------
(* Claims about completion (SpecCompletion). *)

Labels(items) == {items[i].label : i \in DOMAIN items}

\* the names with a declaration site in the Variable Symbol Index
DeclaredNames == DOMAIN analyze_variables(doc).definitions

\* the answer does not depend on the position, holds the catalogs, and its
\* variable items are the declared names, once each
CompletionAgrees(items) ==
    /\ items = get_completions(doc, NoCursor)
    /\ SemanticKeywords \subseteq Labels(items.keywords)
    /\ SemanticFunctions \subseteq Labels(items.functions)
    /\ {v.label : v \in items.variables} = DeclaredNames
    /\ Cardinality(items.variables) = Cardinality(DeclaredNames)

\* C22: completion is independent of the cursor position, holds every
\* catalog keyword and every catalog function, and its variable items are
\* exactly the names with a declaration site in the Variable Symbol Index of
\* diagnostics, each once.
C22_CompletionItems == Asked("completion") => CompletionAgrees(response.value)

-----------------------------------------------------------------------------
(* The state machine: semantic tokens of rows with comments. *)

MaxCommentRows == 3

rowPrintRem ==                                                   \* 10 PRINT 1: REM hi
    <<"1","0"," ","P","R","I","N","T"," ","1",":"," ","R","E","M"," ","h","i">>
rowSetNote == <<"2","0"," ","X"," ","="," ","1"," ","'"," ","s","e","t">>    \* 20 X = 1 ' set
rowQuoted == <<"3","0"," ","P","R","I","N","T"," ","\"","i","t","'","s","\"">>  \* 30 PRINT "it's"

CommentRows == {rowRemHi, rowNote, rowPrintRem, rowSetNote, rowQuoted, rowIndented}

EditComments ==
    /\ Len(doc) < MaxCommentRows
    /\ \E row \in CommentRows : Edit(row)

NextComments == EditComments \/ SemanticTokensFull

SpecComments == Init /\ [][NextComments]_vars

-----------------------------------------------------------------------------
(* Claims about Comment tokens (SpecComments). *)

\* column i of row is inside a string literal
InString(row, i) == Cardinality({j \in 1..i : row[j] = "\""}) % 2 = 1

\* the columns where a comment starts: a ' or the word REM outside a string
CommentStarts(row) ==
    {i \in 0..(Len(row) - 1) :
        /\ ~InString(row, i)
        /\ \/ row[i + 1] = "'"
           \/ /\ i + 3 <= Len(row)
              /\ Slice(to_uppercase(row), i, i + 3) = <<"R","E","M">>
              /\ (i = 0 \/ ~is_ascii_alphanumeric(row[i]))}

\* the tokens of row r as <<start column, length, type>>
TokensOfRow(data, decoded, r) ==
    {<<decoded[i][2], data[i].length, data[i].token_type>> :
        i \in {k \in DOMAIN data : decoded[k][1] = r}}

\* the row's tokens stop with one Comment token from the start of the
\* comment to the end of the row
CommentCloses(row, tokens) ==
    CommentStarts(row) # {} =>
        LET start == Min(CommentStarts(row))
        IN  /\ {t \in tokens : t[3] = TYPE_COMMENT} = {<<start, Len(row) - start, TYPE_COMMENT>>}
            /\ \A t \in tokens : t[1] <= start

\* C23: on every row, once REM or a ' outside a string literal is met, exactly
\* one Comment token from there to the end of the row is emitted and no
\* further token for that row, whether the comment starts the statement or
\* follows other statements.
C23_CommentToEndOfRow ==
    (Asked("semantic-tokens") /\ response.value.status = "tokens") =>
        \A r \in 0..(Len(doc) - 1) :
            CommentCloses(doc[r + 1], TokensOfRow(response.value.data, Decoded, r))

-----------------------------------------------------------------------------
(* Signature help (signature.rs). *)

\* the column of the `(` that is still open at the end of s, scanning
\* backwards from column i with paren_depth closers pending; None when none
RECURSIVE open_paren(_, _, _)
open_paren(s, i, paren_depth) ==
    IF i < 0 THEN None
    ELSE IF s[i + 1] = ")" THEN open_paren(s, i - 1, paren_depth + 1)
    ELSE IF s[i + 1] = "(" THEN
        IF paren_depth = 0 THEN i ELSE open_paren(s, i - 1, paren_depth - 1)
    ELSE open_paren(s, i - 1, paren_depth)

\* the commas of s that are outside nested parentheses
RECURSIVE count_parameters_from(_, _, _, _)
count_parameters_from(s, i, paren_depth, count) ==
    IF i >= Len(s) THEN count
    ELSE IF s[i + 1] = "(" THEN count_parameters_from(s, i + 1, paren_depth + 1, count)
    ELSE IF s[i + 1] = ")" THEN count_parameters_from(s, i + 1, paren_depth - 1, count)
    ELSE IF s[i + 1] = "," /\ paren_depth = 0
    THEN count_parameters_from(s, i + 1, paren_depth, count + 1)
    ELSE count_parameters_from(s, i + 1, paren_depth, count)

count_parameters(s) == count_parameters_from(s, 0, 0, 0)

\* the functions get_function_signature has an entry for
SignatureNames ==
    {<<"C","H","R","$">>, <<"A","S","C">>, <<"L","E","N">>, <<"L","E","F","T","$">>,
     <<"R","I","G","H","T","$">>, <<"M","I","D","$">>, <<"S","T","R","$">>,
     <<"V","A","L">>, <<"S","T","R","I","N","G","$">>, <<"S","P","A","C","E","$">>,
     <<"I","N","S","T","R">>, <<"U","C","A","S","E","$">>, <<"L","C","A","S","E","$">>,
     <<"L","T","R","I","M","$">>, <<"R","T","R","I","M","$">>, <<"H","E","X","$">>,
     <<"O","C","T","$">>, <<"A","B","S">>, <<"S","G","N">>, <<"I","N","T">>,
     <<"F","I","X">>, <<"C","I","N","T">>, <<"S","Q","R">>, <<"S","I","N">>,
     <<"C","O","S">>, <<"T","A","N">>, <<"A","T","N">>, <<"L","O","G">>,
     <<"E","X","P">>, <<"R","N","D">>, <<"P","O","I","N","T">>,
     <<"C","S","R","L","I","N">>, <<"P","O","S">>, <<"T","A","B">>, <<"S","P","C">>,
     <<"E","O","F">>, <<"P","E","E","K">>, <<"T","I","M","E","R">>}

NoSignature == [status |-> "none"]

\* the signature of name with the active parameter marked; the label is
\* kept as the function's name
get_function_signature(name, active_param) ==
    IF name \in SignatureNames
    THEN [status |-> "signature", label |-> name, active_parameter |-> active_param]
    ELSE NoSignature

signature_name_start(before_paren) ==
    LET breaks == {i \in 0..(Len(before_paren) - 1) :
                      /\ ~is_ascii_alphanumeric(before_paren[i + 1])
                      /\ before_paren[i + 1] \notin {"$", "_"}}
    IN  IF breaks = {} THEN 0 ELSE Max(breaks) + 1

signature_at(before_cursor, func_end) ==
    LET before_paren == Slice(before_cursor, 0, func_end)
        func_name == to_uppercase(trim(From(before_paren, signature_name_start(before_paren))))
    IN  IF func_name = <<>> THEN NoSignature
        ELSE get_function_signature(func_name,
                 count_parameters(From(before_cursor, func_end + 1)))

get_signature_help(source, position) ==
    IF position.line >= Len(source) THEN NoSignature
    ELSE LET line == source[position.line + 1]
             before_cursor == Slice(line, 0, Min({position.character, Len(line)}))
             func_end == open_paren(before_cursor, Len(before_cursor) - 1, 0)
         IN  IF func_end = None THEN NoSignature
             ELSE signature_at(before_cursor, func_end)

-----------------------------------------------------------------------------
(* The document store and the notification and query handlers (backend.rs). *)

MaxNotifications == 2

MaxHandlers == 2

Uris == {"file:///a.bas", "file:///b.bas"}

rowLeft == <<"2","0"," ","P","R","I","N","T"," ","L","E","F","T","$","(","A","$",","," ","I",")">> \* 20 PRINT LEFT$(A$, I)

TextJump == <<rowGoto99>>

TextLoop == <<rowFor, rowLeft, rowNext>>

\* the full texts a notification carries; both are programs the grammar
\* engine accepts
Texts == {TextJump, TextLoop}

\* the content changes of a change notification: none, one or two full texts
ContentChanges == {<<>>, <<TextJump>>, <<TextLoop, TextJump>>}

\* HashMap::insert and HashMap::remove
insert(map, key, value) ==
    [k \in DOMAIN map \cup {key} |-> IF k = key THEN value ELSE map[k]]

keep(map, key) == map

remove(map, key) == [k \in DOMAIN map \ {key} |-> map[k]]

\* params.content_changes.into_iter().next()
last_change(content_changes) == content_changes[Len(content_changes)]

first_change(content_changes) == content_changes[1]

\* the text a handler writes and validates
handler_text(notification) ==
    IF notification.method = "didOpen" THEN notification.texts[1]
    ELSE first_change(notification.texts)

\* the publication validate sends for text
validate(uri, text) == [uri |-> uri, diagnostics |-> check(text, ParseOk)]

Null == [status |-> "none"]

goto_definition(docs, uri, pos) ==
    IF uri \in DOMAIN docs THEN find_definition(docs[uri], pos) ELSE Null

hover(docs, uri, pos) ==
    IF uri \in DOMAIN docs THEN get_hover(docs[uri], pos) ELSE Null

completion(docs, uri, pos) ==
    IF uri \in DOMAIN docs
    THEN [status |-> "array", items |-> get_completions(docs[uri], pos)]
    ELSE Null

document_symbol(docs, uri) ==
    IF uri \in DOMAIN docs
    THEN [status |-> "nested", symbols |-> get_document_symbols(docs[uri])]
    ELSE Null

some_locations(refs) ==
    IF refs # <<>> THEN [status |-> "locations", locations |-> refs] ELSE Null

references(docs, uri, pos) ==
    IF uri \in DOMAIN docs THEN some_locations(find_references(docs[uri], pos)) ELSE Null

signature_help(docs, uri, pos) ==
    IF uri \in DOMAIN docs THEN get_signature_help(docs[uri], pos) ELSE Null

backend_prepare_rename(docs, uri, pos) ==
    IF uri \in DOMAIN docs THEN prepare_rename(docs[uri], pos) ELSE Null

some_edits(result) == IF result.status = "none" THEN Null ELSE result

rename(docs, uri, pos, new_name) ==
    IF uri \in DOMAIN docs THEN some_edits(rename_symbol(docs[uri], pos, new_name))
    ELSE Null

some_ranges(ranges) ==
    IF ranges # <<>> THEN [status |-> "ranges", ranges |-> ranges] ELSE Null

folding_range(docs, uri) ==
    IF uri \in DOMAIN docs THEN some_ranges(get_folding_ranges(docs[uri])) ELSE Null

semantic_tokens_full(docs, uri, overflow_checks) ==
    IF uri \in DOMAIN docs THEN get_semantic_tokens(docs[uri], overflow_checks) ELSE Null

\* a handler's step follows the delivery of the last answer, as Edit does
DropAnswer ==
    /\ op' = "edit"
    /\ cursor' = NoCursor
    /\ response' = NoResponse

\* the handlers that have not returned yet
Running == {i \in DOMAIN notifications : notifications[i].pc # "done"}

\* the server takes a notification while fewer than handlers are running
Receive(handlers, notification) ==
    /\ Len(notifications) < MaxNotifications
    /\ Cardinality(Running) < handlers
    /\ notifications' = Append(notifications, notification)
    /\ DropAnswer
    /\ UNCHANGED <<documents, writer, client, doc, parsed, diagnostics, symbols,
                   newName, edits, doc2, edits2, foldingRanges>>

Opened(handlers) ==
    \E uri \in Uris : \E text \in Texts :
        Receive(handlers, [method |-> "didOpen", uri |-> uri, texts |-> <<text>>,
                           pc |-> "lock"])

\* did_change returns at once when there is no content change
Changed(handlers) ==
    \E uri \in Uris : \E content_changes \in ContentChanges :
        Receive(handlers, [method |-> "didChange", uri |-> uri, texts |-> content_changes,
                           pc |-> IF content_changes = <<>> THEN "done" ELSE "lock"])

Closed(handlers) ==
    \E uri \in Uris :
        Receive(handlers, [method |-> "didClose", uri |-> uri, texts |-> <<>>,
                           pc |-> "lock"])

DidOpen == Opened(1)

DidChange == Changed(1)

DidClose == Closed(1)

\* documents.write(): the handler takes the exclusive lock when it is free
Lock ==
    \E i \in DOMAIN notifications :
        /\ notifications[i].pc = "lock"
        /\ writer = 0
        /\ writer' = i
        /\ notifications' = [notifications EXCEPT ![i].pc = "write"]
        /\ DropAnswer
        /\ UNCHANGED <<documents, client, doc, parsed, diagnostics, symbols,
                       newName, edits, doc2, edits2, foldingRanges>>

\* insert or remove under the lock; the guard is dropped with the statement
Write ==
    \E i \in DOMAIN notifications :
        /\ notifications[i].pc = "write"
        /\ writer = i
        /\ documents' = IF notifications[i].method = "didClose"
                        THEN remove(documents, notifications[i].uri)
                        ELSE insert(documents, notifications[i].uri,
                                    handler_text(notifications[i]))
        /\ writer' = 0
        /\ notifications' = [notifications EXCEPT
               ![i].pc = IF notifications[i].method = "didClose" THEN "done"
                         ELSE "validate"]
        /\ DropAnswer
        /\ UNCHANGED <<client, doc, parsed, diagnostics, symbols,
                       newName, edits, doc2, edits2, foldingRanges>>

\* validate(uri, text): check the handler's text and publish the result
Validate ==
    \E i \in DOMAIN notifications :
        /\ notifications[i].pc = "validate"
        /\ client' = Append(client, validate(notifications[i].uri,
                                             handler_text(notifications[i])))
        /\ notifications' = [notifications EXCEPT ![i].pc = "done"]
        /\ DropAnswer
        /\ UNCHANGED <<documents, writer, doc, parsed, diagnostics, symbols,
                       newName, edits, doc2, edits2, foldingRanges>>

\* the cursor positions of the queries
QueryPositions == {[line |-> 1, character |-> 19]}

\* a query takes the shared lock, answers from the store and returns
Query(name, uri, position, result) ==
    /\ op = "edit"
    /\ writer = 0
    /\ Request(name, position, [uri |-> uri, result |-> result])

QueryDefinition ==
    \E uri \in Uris : \E p \in QueryPositions :
        Query("textDocument/definition", uri, p, goto_definition(documents, uri, p))

QueryHover ==
    \E uri \in Uris : \E p \in QueryPositions :
        Query("textDocument/hover", uri, p, hover(documents, uri, p))

QueryCompletion ==
    \E uri \in Uris : \E p \in QueryPositions :
        Query("textDocument/completion", uri, p, completion(documents, uri, p))

QuerySymbols ==
    \E uri \in Uris :
        Query("textDocument/documentSymbol", uri, NoCursor, document_symbol(documents, uri))

QueryReferences ==
    \E uri \in Uris : \E p \in QueryPositions :
        Query("textDocument/references", uri, p, references(documents, uri, p))

QuerySignatureHelp ==
    \E uri \in Uris : \E p \in QueryPositions :
        Query("textDocument/signatureHelp", uri, p, signature_help(documents, uri, p))

QueryPrepareRename ==
    \E uri \in Uris : \E p \in QueryPositions :
        Query("textDocument/prepareRename", uri, p,
              backend_prepare_rename(documents, uri, p))

QueryRename ==
    \E uri \in Uris : \E p \in QueryPositions :
        Query("textDocument/rename", uri, p, rename(documents, uri, p, <<"B">>))

QueryFolding ==
    \E uri \in Uris :
        Query("textDocument/foldingRange", uri, NoCursor, folding_range(documents, uri))

QuerySemanticTokens ==
    \E uri \in Uris : \E overflow_checks \in BOOLEAN :
        Query("textDocument/semanticTokens/full", uri, NoCursor,
              semantic_tokens_full(documents, uri, overflow_checks))

Queries ==
    \/ QueryDefinition \/ QueryHover \/ QueryCompletion \/ QuerySymbols
    \/ QueryReferences \/ QuerySignatureHelp \/ QueryPrepareRename \/ QueryRename
    \/ QueryFolding \/ QuerySemanticTokens

\* the notifications are processed one after another
NextStore == DidOpen \/ DidChange \/ DidClose \/ Lock \/ Write \/ Validate \/ Queries

SpecStore == Init /\ [][NextStore]_vars

\* the step of notifications that a Validate step makes
ValidateReturns ==
    \E i \in DOMAIN notifications :
        /\ notifications[i].pc = "validate"
        /\ notifications' = [notifications EXCEPT ![i].pc = "done"]

\* the handlers run to completion: the runtime polls a handler until it
\* returns, and the lock is never held across a suspension point
SpecStoreLive ==
    SpecStore /\ WF_vars(Lock) /\ WF_vars(Write) /\ WF_notifications(ValidateReturns)

OpenConcurrently == Opened(MaxHandlers)

ChangeConcurrently == Changed(MaxHandlers)

\* up to MaxHandlers notification handlers run at once, interleaving at
\* their steps
NextConcurrent == OpenConcurrently \/ ChangeConcurrently \/ Lock \/ Write \/ Validate

SpecConcurrent == Init /\ [][NextConcurrent]_vars

-----------------------------------------------------------------------------
(* Claims about the document store and the publications. *)

Idle == Running = {}

\* a notification that changes the store: an open, a close, or a change
\* with a content change
Effective(n) == n.method # "didChange" \/ n.texts # <<>>

\* the full text an open or change notification carries
TextCarried(n) == Head(n.texts)

EffectiveOn(uri) ==
    {i \in DOMAIN notifications : notifications[i].uri = uri /\ Effective(notifications[i])}

StoreAgrees(uri) ==
    IF EffectiveOn(uri) = {} \/ notifications[Max(EffectiveOn(uri))].method = "didClose"
    THEN uri \notin DOMAIN documents
    ELSE /\ uri \in DOMAIN documents
         /\ documents[uri] = TextCarried(notifications[Max(EffectiveOn(uri))])

Answered == op # "edit" /\ response.request = op

StoreKept ==
    /\ Idle => \A uri \in Uris : StoreAgrees(uri)
    /\ (Answered /\ response.value.uri \notin DOMAIN documents)
           => response.value.result.status = "none"

\* C24: once the notifications received so far have been processed one
\* after another, the store holds for each identifier the text of its latest
\* open or change notification, and nothing when a close came last or none
\* came; a query on an identifier without entry answers none; and a query
\* step leaves the store as it was.
C24_StoreFollowsNotifications ==
    /\ []StoreKept
    /\ [][op' # "edit" => documents' = documents]_vars

\* a document was opened and closed, and a query on it was answered
C24_Witness ==
    /\ Idle
    /\ Answered
    /\ response.value.uri \notin DOMAIN documents
    /\ \E i \in DOMAIN notifications : \E j \in DOMAIN notifications :
           /\ i < j
           /\ notifications[i].method = "didOpen"
           /\ notifications[j].method = "didClose"
           /\ notifications[i].uri = response.value.uri
           /\ notifications[j].uri = response.value.uri

\* the notifications whose handler has published: those that returned and
\* carried a text
Published ==
    SelectSeq(notifications,
              LAMBDA n : n.pc = "done" /\ n.method # "didClose" /\ n.texts # <<>>)

\* what check() answers for each text
DiagnosticsOf == [text \in Texts |-> check(text, ParseOk)]

PublicationOf(n) == [uri |-> n.uri, diagnostics |-> DiagnosticsOf[TextCarried(n)]]

\* the publication of handler i is pending: its write is done
Pending(i) == notifications[i].pc = "validate"

PublishedOnce(published) ==
    /\ client = [i \in DOMAIN published |-> PublicationOf(published[i])]
    /\ \A i \in DOMAIN notifications :
           Pending(i) => /\ writer = 0
                         /\ notifications[i].uri \in DOMAIN documents
                         /\ documents[notifications[i].uri] = TextCarried(notifications[i])

\* C25: the publications sent to the client are, in order, one per open
\* notification and per change notification with a content change whose
\* handler has returned, each being check() of that notification's text, and
\* nothing else is ever published; while a publication is pending the write
\* is in the store and the exclusive lock is free; and every handler that
\* has started returns, so the publication is made.
C25_OnePublicationPerText ==
    /\ []PublishedOnce(Published)
    /\ (~Idle ~> Idle)

\* two different publications were made for one document, the second one
\* for a change with two content changes
C25_Witness ==
    /\ Idle
    /\ Len(client) = 2
    /\ client[1].uri = client[2].uri
    /\ client[1].diagnostics # client[2].diagnostics
    /\ Len(notifications[2].texts) = 2

\* the publications made for uri, in order
PublishedFor(uri) == SelectSeq(client, LAMBDA publication : publication.uri = uri)

Fresh(publications, text) ==
    publications # <<>> =>
        publications[Len(publications)].diagnostics = DiagnosticsOf[text]

ChangesOnly == \A i \in DOMAIN notifications : notifications[i].method = "didChange"

\* C28: when the change handlers that ran concurrently have all returned,
\* the diagnostics published last for a stored document are those of the
\* text the store holds for it.
C28_DiagnosticsNotStale ==
    (Idle /\ ChangesOnly) =>
        \A uri \in DOMAIN documents : Fresh(PublishedFor(uri), documents[uri])

====
